---- MODULE Spec2Model ----
(***************************************************************************)
(* Model of the agent runtime of shai: the agent state machine that        *)
(* processes brain results (shai-core/src/agent/actions/brain.rs), the     *)
(* Paused state handler (shai-core/src/agent/states/pause.rs) and the      *)
(* context compressor (shai-core/src/runners/compacter/compact.rs), and    *)
(* the lookup of a model's context size                                    *)
(* (shai-llm/src/tool/max_context.rs); and of the input widget of the      *)
(* terminal interface (shai-cli/src/tui/input.rs).                         *)
(*                                                                         *)
(* The agent core is one record `core`; every handler of the source is an  *)
(* operator from a core record to the core record it leaves behind, so a   *)
(* handler that calls another is the composition of the two operators.     *)
(***************************************************************************)
EXTENDS Integers, Sequences, FiniteSets, TLC

VARIABLES
    state,             \* InternalAgentState of the agent core
    trace,             \* the messages the brain sees on its next call
    full_trace,        \* every message ever added
    compressor,        \* the brain's context compressor
    tasks,             \* background tasks in flight
    queue,             \* the internal event queue
    emitted,           \* public events emitted by the last loop iteration
    ret,               \* what the handler of the last loop iteration returned
    pending_compress,  \* a manual compression waits for Paused
    last,              \* the event the last loop iteration handled: its type,
                       \* the decision it carried and the state it met
    llm_call,          \* the call of the summarizer the last step made
    model_name,        \* the model name get_max_context is called with
    max_context,       \* what get_max_context returned, 0 before the call
    input_area,        \* the InputArea widget of the terminal interface
    user_action        \* the call the last step made on the widget and what
                       \* it returned

vars == <<state, trace, full_trace, compressor, tasks, queue, emitted, ret,
          pending_compress, last, llm_call, model_name, max_context,
          input_area, user_action>>

---------------------------------------------------------------------------
(* Bounds of the model *)

\* longest full trace the conversation grows to under Spec, where the
\* controller, the background tasks and the event loop interleave freely
MaxFull == 5
\* longest full trace under TurnSpec, where the controller waits for the
\* agent before it sends the next command
MaxLong == 9
\* most non-system messages of a trace given to the compressor alone
MaxInput == 7
\* most controller events (user input, cancel, manual compression) pending
MaxQueue == 1
\* most cancelled brain tasks that have not yet resolved
MaxStale == 1
\* a capacity to try the event queue against: the channel of the code
\* has none
QueueCapacity == 2
\* longest conversation the Paused handler is tried on
MaxPaused == 4
\* most characters typed into the input widget, line feeds not counted
MaxChars == 2
\* most lines of the input widget
MaxLines == 2
\* most entries of the widget's history when its navigation is checked
MaxHistory == 2
\* most submissions followed when the submission itself is checked
MaxSubmitted == 1
\* largest token count the threshold is tried on
CountCap == 1200
\* largest value the model lets the token counter reach through usage reports
TokenCap == 190

---------------------------------------------------------------------------
(* Values drawn for the inputs *)

\* context sizes the compressor is built with (ContextCompressor::new)
MaxTokensChoices == {100}
\* token usage a brain decision may report: none, or (prompt, completion)
UsageChoices == {<<>>, <<80, 10>>}
\* completion_tokens values a summarization response may carry
SummaryTokensChoices == {0, 10}
\* completion_tokens values of the responses the compressor alone is tried
\* on: a long summary as well
ResponseTokensChoices == {0, 10, 95}
\* summary texts a summarization response may carry: empty, blank, a word,
\* a word after a blank
SummaryTexts == {<<>>, <<" ", "\n">>, <<"s">>, <<" ", "s">>}
\* tool-call id lists an assistant message may carry
CallsChoices == {<<>>, <<1, 2>>}
\* compressor states the compressor alone is tried on: context sizes around
\* a multiple of ten, token counts around nine tenths of them
SizeChoices == {99, 100, 101}
CountChoices == {0, 88, 89, 90, 91}

\* token estimate of the fallback note (compact.rs:219)
FallbackTokens == 50
\* number of most recent non-system messages compression keeps (compact.rs:183)
RecentKept == 6

---------------------------------------------------------------------------
(* Messages: ChatMessage of shai-llm *)

\* ChatMessageContent: Text(text), or a content that is no text (parts);
\* a text is a sequence of pieces, each a character or a fixed phrase
Text(pieces) == [kind |-> "Text", text |-> pieces]
Parts == [kind |-> "Parts", text |-> <<>>]

Msg(role, name, content, calls, id) ==
    [role |-> role, name |-> name, content |-> content, calls |-> calls,
     id |-> id]

SystemMsg(name, content) == Msg("System", name, content, <<>>, 0)
\* the system prompt the agent is built with
PromptMsg == SystemMsg("none", Text(<<"prompt">>))
\* the n-th request of the user
UserMsg(n) ==
    Msg("User", "none", Text(<<"request " \o ToString(n)>>), <<>>, 0)
\* a user message whose content is not text
UserPartsMsg == Msg("User", "none", Parts, <<>>, 0)
AssistantMsg(calls) == Msg("Assistant", "none", Text(<<"answer">>), calls, 0)
ToolMsg(id) == Msg("Tool", "none", Text(<<"output">>), <<>>, id)

\* the summary message without the words that introduce the summary
SummaryMsg_bare(summary) == SystemMsg("summary", Text(summary))

\* compact.rs:202-208, the message holding the AI summary:
\* format!("Previous conversation summary: {}", summary)
SummaryMsg(summary) ==
    SystemMsg("summary",
              Text(<<"Previous conversation summary: ">> \o summary))

\* the fallback note under the name of a summary
FallbackMsg_as_summary ==
    SystemMsg("summary",
       Text(<<"[Previous conversation history compressed - AI summary unavailable]">>))

\* compact.rs:213-218, the note used when no summary could be made
FallbackMsg ==
    SystemMsg("system",
       Text(<<"[Previous conversation history compressed - AI summary unavailable]">>))

IsSystem(m) == m.role = "System"
\* compact.rs:162
IsSummary(m) == m.role = "System" /\ m.name = "summary"

NonSystem(msgs) == LET keep(m) == ~IsSystem(m) IN SelectSeq(msgs, keep)
SystemOnly(msgs) == SelectSeq(msgs, IsSystem)
\* the first pass without its filter: old summaries stay
NonSummary_unfiltered(msgs) == msgs

NonSummary(msgs) == LET keep(m) == ~IsSummary(m) IN SelectSeq(msgs, keep)

\* usize::saturating_sub
SaturatingSub(a, b) == IF a >= b THEN a - b ELSE 0

---------------------------------------------------------------------------
(* ContextCompressor: compact.rs *)

\* ContextCompressor::new / new_with_llm; `present` is the Option around the
\* brain's context_compressor field, `has_llm` the llm_client and model options
NewCompressor(max_tokens, has_llm, present) ==
    [max_tokens |-> max_tokens, current_tokens |-> 0,
     has_llm |-> has_llm, present |-> present]

\* u32 arithmetic. A u32 is handled as its two 16-bit halves <<high, low>>,
\* so that sums up to 2^33 can be computed; HalfWord is 2^16.
HalfWord == 65536

Halves(n) == <<n \div HalfWord, n % HalfWord>>

\* x + y with the carry out of bit 31 left in the high half
AddHalves(x, y) ==
    <<x[1] + y[1] + (x[2] + y[2]) \div HalfWord, (x[2] + y[2]) % HalfWord>>

\* the addition does not fit 32 bits
Overflows(h) == h[1] >= HalfWord

\* the low 32 bits of the sum: what an unchecked u32 addition leaves
Wrapped(h) == <<h[1] % HalfWord, h[2]>>

Value(h) == h[1] * HalfWord + h[2]

\* the two additions of update_token_count, in the order the statement
\* makes them: input_tokens + output_tokens, then self.current_tokens += it
TokenSums(comp, input_tokens, output_tokens) ==
    LET inner == AddHalves(Halves(input_tokens), Halves(output_tokens))
    IN  <<inner, AddHalves(Halves(comp.current_tokens), Wrapped(inner))>>

\* one of the two additions overflows: the call panics in a build with
\* overflow checks and wraps around in a build without
update_token_count_overflows(comp, input_tokens, output_tokens) ==
    \/ Overflows(TokenSums(comp, input_tokens, output_tokens)[1])
    \/ Overflows(TokenSums(comp, input_tokens, output_tokens)[2])

\* update_token_count: self.current_tokens += input_tokens + output_tokens,
\* on u32 counters, as it returns when it does not panic
update_token_count(comp, input_tokens, output_tokens) ==
    [comp EXCEPT !.current_tokens =
        Value(Wrapped(TokenSums(comp, input_tokens, output_tokens)[2]))]

\* (self.max_tokens as f64 * 0.90) as u32: the product truncated toward zero
Threshold(max_tokens) == (max_tokens * 9) \div 10

\* should_compress with the 80 percent threshold its log message names
should_compress_eighty(comp) ==
    comp.current_tokens >= (comp.max_tokens * 8) \div 10

should_compress(comp) == comp.current_tokens >= Threshold(comp.max_tokens)

should_compress_conversation(comp, messages) ==
    IF ~should_compress(comp) THEN FALSE
    ELSE Len(NonSystem(messages)) > 2

\* What llm_client.chat can answer. ok: the call returned a response;
\* usage: the response has usage information; has_completion and
\* completion_tokens: the Option<u32> inside it; choice: what the first
\* choice is ("none": there is no choice, "not_assistant": no Assistant
\* message with a content, "parts": an Assistant message whose content is
\* no text, "text": an Assistant message with the text `summary`).
Response(ok, usage, has_completion, completion_tokens, choice, summary) ==
    [ok |-> ok, usage |-> usage, has_completion |-> has_completion,
     completion_tokens |-> completion_tokens, choice |-> choice,
     summary |-> summary]

CallFailed == Response(FALSE, FALSE, FALSE, 0, "none", <<>>)

\* the answers the agent's runs are tried on
LlmAnswers ==
    {CallFailed} \cup
    {Response(TRUE, TRUE, TRUE, k, "text", t) :
        k \in SummaryTokensChoices, t \in {<<" ">>, <<"s">>}}

\* the answers the compressor alone is tried on
LlmResponses ==
    {CallFailed} \cup
    {Response(TRUE, u[1], u[2], u[3], c[1], c[2]) :
        u \in {<<FALSE, FALSE, 0>>, <<TRUE, FALSE, 0>>} \cup
              {<<TRUE, TRUE, k>> : k \in ResponseTokensChoices},
        c \in {<<"none", <<>> >>, <<"not_assistant", <<>> >>,
               <<"parts", <<>> >>} \cup
              {<<"text", t>> : t \in SummaryTexts}}

IsWhitespace(ch) == ch \in {" ", "\n", "\t"}

RECURSIVE TrimStart(_)
TrimStart(t) ==
    IF t # <<>> /\ IsWhitespace(Head(t)) THEN TrimStart(Tail(t)) ELSE t

RECURSIVE TrimEnd(_)
TrimEnd(t) ==
    IF t # <<>> /\ IsWhitespace(t[Len(t)])
    THEN TrimEnd(SubSeq(t, 1, Len(t) - 1)) ELSE t

\* a trim that leaves the text as it is
Trim_nothing(t) == t

\* str::trim
Trim(t) == TrimEnd(TrimStart(t))

SummaryErr == [ok |-> FALSE, summary |-> <<>>, tokens |-> 0]

\* summarize_conversation: Ok((summary, tokens)) or Err
summarize_conversation(comp, answer) ==
    IF ~comp.has_llm THEN SummaryErr
    ELSE IF ~answer.ok THEN SummaryErr
    ELSE IF ~answer.usage THEN SummaryErr
    ELSE LET summary_tokens == IF answer.has_completion
                               THEN answer.completion_tokens ELSE 0
         IN IF answer.choice # "text" THEN SummaryErr
            ELSE IF Trim(answer.summary) # <<>> /\ summary_tokens > 0
            THEN [ok |-> TRUE, summary |-> answer.summary,
                  tokens |-> summary_tokens]
            ELSE SummaryErr

\* the call of the summarizer a compression makes: none, or a request that
\* opens with the user request taken from the full trace, and the response
\* that came back
NoCall == [asked |-> FALSE, first_user_message |-> <<>>,
           response |-> CallFailed]

\* compact.rs:141-151: full_trace.iter().rev().find_map(..), else the
\* placeholder
first_user_message(full) ==
    LET textual == {i \in DOMAIN full :
                      /\ full[i].role = "User"
                      /\ full[i].content.kind = "Text"}
    IN IF textual = {} THEN <<"[No user message found]">>
       ELSE full[CHOOSE i \in textual : \A j \in textual : j <= i]
                .content.text

NoInfo == [some |-> FALSE, original_message_count |-> 0,
           compressed_message_count |-> 0, tokens_before |-> 0,
           current_tokens |-> 0, max_tokens |-> 0, ai_summary |-> FALSE]

\* the oldest six non-system messages instead of the newest
RecentOf_oldest(non_system) ==
    SubSeq(non_system, 1,
           IF Len(non_system) < RecentKept THEN Len(non_system) ELSE RecentKept)

\* the non-system messages from index non_system_count.saturating_sub(6) on
RecentOf(non_system) ==
    LET n == Len(non_system)
        first == SaturatingSub(n, RecentKept)
    IN SubSeq(non_system, first + 1, n)

MiddleOf(non_system) ==
    SubSeq(non_system, 1, SaturatingSub(Len(non_system), RecentKept))

\* compress_messages_internal: the pair (compressed, Some(info)), the
\* compressor it leaves and the request it made to the summarizer;
\* current_tokens of the info is 0 for None. Its steps, last first: the
\* trace rebuilt around the note (Rebuilt), the split of the non-system
\* messages and the call of the summarizer (Partitioned), the filter of
\* the old summaries (Filtered).
Rebuilt(comp, messages, full, answer, system_messages, recent_messages, middle_messages, summary) ==
    LET note == IF middle_messages = <<>> THEN <<>>
                ELSE IF summary.ok THEN <<SummaryMsg(summary.summary)>>
                ELSE <<FallbackMsg>>
        summary_tokens == IF middle_messages = <<>> THEN 0
                          ELSE IF summary.ok THEN summary.tokens
                          ELSE FallbackTokens
        compressed == system_messages \o note \o recent_messages
    IN [messages |-> compressed,
        info |-> [some |-> TRUE,
                  original_message_count |-> Len(messages),
                  compressed_message_count |-> Len(compressed),
                  tokens_before |-> comp.current_tokens,
                  current_tokens |-> summary_tokens,
                  max_tokens |-> comp.max_tokens,
                  ai_summary |-> (middle_messages # <<>> /\ summary.ok)],
        comp |-> [comp EXCEPT !.current_tokens = summary_tokens],
        call |-> IF middle_messages # <<>> /\ comp.has_llm
                    THEN [asked |-> TRUE,
                          first_user_message |->
                              first_user_message(full),
                          response |-> answer]
                    ELSE NoCall]

Partitioned(comp, messages, full, answer, system_messages, non_system) ==
    Rebuilt(comp, messages, full, answer, system_messages,
            RecentOf(non_system), MiddleOf(non_system),
            summarize_conversation(comp, answer))

Filtered(comp, messages, full, answer, non_summary_messages) ==
    Partitioned(comp, messages, full, answer,
                SystemOnly(non_summary_messages),
                NonSystem(non_summary_messages))

compress_messages_internal(comp, messages, full, answer) ==
    Filtered(comp, messages, full, answer, NonSummary(messages))

\* the result of a call that returns its input
Untouched(comp, messages) ==
    [messages |-> messages, info |-> NoInfo, comp |-> comp,
     call |-> NoCall]

compress_messages(comp, messages, full, answer) ==
    IF ~should_compress_conversation(comp, messages)
    THEN Untouched(comp, messages)
    ELSE compress_messages_internal(comp, messages, full, answer)

\* compress_messages_force that still asks should_compress
compress_messages_force_thresholded(comp, messages, full, answer) ==
    IF Len(NonSystem(messages)) <= 2 \/ ~should_compress(comp)
    THEN Untouched(comp, messages)
    ELSE compress_messages_internal(comp, messages, full, answer)

compress_messages_force(comp, messages, full, answer) ==
    IF Len(NonSystem(messages)) <= 2
    THEN Untouched(comp, messages)
    ELSE compress_messages_internal(comp, messages, full, answer)

---------------------------------------------------------------------------
(* shai-llm/src/tool/max_context.rs. A string is the sequence of its       *)
(* characters; a score, which the code holds as an f64 quotient of two     *)
(* small integers, is the pair <<numerator, denominator>>, and scores are  *)
(* compared by cross-multiplication.                                       *)

UpperCase ==
    <<"A", "B", "C", "D", "E", "F", "G", "H", "I", "J", "K", "L", "M", "N",
      "O", "P", "Q", "R", "S", "T", "U", "V", "W", "X", "Y", "Z">>

LowerCase ==
    <<"a", "b", "c", "d", "e", "f", "g", "h", "i", "j", "k", "l", "m", "n",
      "o", "p", "q", "r", "s", "t", "u", "v", "w", "x", "y", "z">>

\* char::to_lowercase, on the characters that occur in model names
LowerChar(ch) ==
    IF \E i \in DOMAIN UpperCase : UpperCase[i] = ch
    THEN LowerCase[CHOOSE i \in DOMAIN UpperCase : UpperCase[i] = ch]
    ELSE ch

\* str::to_lowercase
to_lowercase(s) ==
    IF s = <<>> THEN <<>> ELSE [i \in 1..Len(s) |-> LowerChar(s[i])]

\* str::contains
contains(haystack, needle) ==
    \E i \in 0..(Len(haystack) - Len(needle)) :
        SubSeq(haystack, i + 1, i + Len(needle)) = needle

\* MIN_SIMILARITY_THRESHOLD: 0.6
MIN_SIMILARITY_THRESHOLD == <<3, 5>>

\* x >= y and x > y on scores
AtLeast(x, y) == x[1] * y[2] >= y[1] * x[2]

Greater(x, y) == x[1] * y[2] > y[1] * x[2]

\* the characters that agree position by position, plus half of the shorter
\* length when one lowercased string contains the other
Matches(s1_chars, s2_chars, min_len) ==
    Cardinality({i \in 1..min_len : s1_chars[i] = s2_chars[i]})
      + (IF contains(s1_chars, s2_chars) \/ contains(s2_chars, s1_chars)
         THEN min_len \div 2 ELSE 0)

Quotient(s1_chars, s2_chars, min_len, max_len) ==
    IF max_len = 0 THEN <<1, 1>>
    ELSE <<Matches(s1_chars, s2_chars, min_len), max_len>>

Lowered(s1_chars, s2_chars) ==
    Quotient(s1_chars, s2_chars,
             IF Len(s1_chars) < Len(s2_chars)
             THEN Len(s1_chars) ELSE Len(s2_chars),
             IF Len(s1_chars) < Len(s2_chars)
             THEN Len(s2_chars) ELSE Len(s1_chars))

similarity_score(s1, s2) == Lowered(to_lowercase(s1), to_lowercase(s2))

\* the table of get_max_context
models ==
    <<
       <<<<"g", "p", "t", "-", "o", "s", "s">>,
         10000>>,
       <<<<"m", "i", "s", "t", "r", "a", "l", "-", "s", "m", "a", "l", "l",
           "-", "3", "-", "2">>,
         128000>>,
       <<<<"m", "i", "s", "t", "r", "a", "l", "-", "7", "b">>,
         32000>>,
       <<<<"m", "i", "s", "t", "r", "a", "l", "-", "n", "e", "m", "o">>,
         32000>>,
       <<<<"m", "i", "x", "t", "r", "a", "l", "-", "8", "x", "7", "b">>,
         32000>>,
       <<<<"q", "w", "e", "n", "3">>,
         32000>>,
       <<<<"q", "w", "e", "n", "-", "2", "-", "5">>,
         32000>>,
       <<<<"l", "l", "a", "m", "a", "-", "3", "-", "1">>,
         131000>>,
       <<<<"l", "l", "a", "m", "a", "-", "3", "_", "3">>,
         131000>>,
       <<<<"m", "e", "t", "a", "-", "l", "l", "a", "m", "a", "-", "3", "_",
           "3">>,
         131000>>,
       <<<<"m", "e", "t", "a", "-", "l", "l", "a", "m", "a", "-", "3", "_",
           "1">>,
         131000>>,
       <<<<"d", "e", "e", "p", "s", "e", "e", "k", "-", "r", "1">>,
         128000>>
    >>

DefaultContext == 30096

\* a threshold every score passes
MeetsThreshold_any(score) == TRUE

\* score >= MIN_SIMILARITY_THRESHOLD
MeetsThreshold(score) == AtLeast(score, MIN_SIMILARITY_THRESHOLD)

\* one turn of the fuzzy loop: best_match after the entry `model` with its
\* score; best_match is <<>> for None and <<score, context>> for Some
Better(best_match, score, model) ==
    IF MeetsThreshold(score)
    THEN IF best_match # <<>>
         THEN IF Greater(score, best_match[1])
              THEN <<score, model[2]>> ELSE best_match
         ELSE <<score, model[2]>>
    ELSE best_match

\* the fuzzy loop from entry i on
RECURSIVE FuzzyFrom(_, _, _)
FuzzyFrom(name, i, best_match) ==
    IF i > Len(models) THEN best_match
    ELSE FuzzyFrom(name, i + 1,
                   Better(best_match, similarity_score(name, models[i][1]),
                          models[i]))

\* best_match.map(|(_, context)| context).unwrap_or(30_096)
ContextOf(best_match) ==
    IF best_match = <<>> THEN DefaultContext ELSE best_match[2]

ExactMatches(name) == {i \in DOMAIN models : models[i][1] = name}

get_max_context(name) ==
    IF ExactMatches(name) # {}
    THEN models[CHOOSE i \in ExactMatches(name) :
                   \A j \in ExactMatches(name) : i <= j][2]
    ELSE ContextOf(FuzzyFrom(name, 1, <<>>))

---------------------------------------------------------------------------
(* shai-cli/src/tui/input.rs: the text of the widget. A String is the      *)
(* sequence of its characters, "\n" being the line feed. The TextArea is   *)
(* the record of its lines and of its cursor <<row, col>>, both counted    *)
(* from 0 as in the code.                                                  *)

\* TextArea::new: no line at all becomes one empty line; the cursor is at
\* the start
TextArea(lines) ==
    [lines |-> IF lines = <<>> THEN <<<<>>>> ELSE lines, cursor |-> <<0, 0>>]

\* TextArea::default()
EmptyArea == TextArea(<<>>)

\* lines.join("\n")
RECURSIVE join(_)
join(lines) ==
    IF lines = <<>> THEN <<>>
    ELSE IF Len(lines) = 1 THEN lines[1]
    ELSE lines[1] \o <<"\n">> \o join(Tail(lines))

\* the pieces of a string between its line feeds
RECURSIVE Pieces(_, _)
Pieces(s, piece) ==
    IF s = <<>> THEN <<piece>>
    ELSE IF Head(s) = "\n" THEN <<piece>> \o Pieces(Tail(s), <<>>)
    ELSE Pieces(Tail(s), Append(piece, Head(s)))

\* what Pieces gives without its last piece when that one is empty
DropEmptyLast(pieces) ==
    IF pieces[Len(pieces)] = <<>>
    THEN SubSeq(pieces, 1, Len(pieces) - 1) ELSE pieces

\* str::lines(): the lines of a string; a final line feed ends the last
\* line and opens no further one, and the empty string has no line
str_lines(s) == DropEmptyLast(Pieces(s, <<>>))

\* row and column of the cursor, and the line it is on
Row(area) == area.cursor[1]

Col(area) == area.cursor[2]

CurrentLine(area) == area.lines[Row(area) + 1]

\* TextArea::input of a character key, and insert_str of a text without
\* line feed: the text goes in at the cursor, which moves behind it
insert_str(area, text) ==
    [lines |-> [area.lines EXCEPT ![Row(area) + 1] =
                   SubSeq(@, 1, Col(area)) \o text
                     \o SubSeq(@, Col(area) + 1, Len(@))],
     cursor |-> <<Row(area), Col(area) + Len(text)>>]

\* TextArea::input of Enter: the line is split at the cursor, which moves
\* to the start of the new line
insert_newline(area) ==
    [lines |-> SubSeq(area.lines, 1, Row(area))
                 \o <<SubSeq(CurrentLine(area), 1, Col(area)),
                      SubSeq(CurrentLine(area), Col(area) + 1,
                             Len(CurrentLine(area)))>>
                 \o SubSeq(area.lines, Row(area) + 2, Len(area.lines)),
     cursor |-> <<Row(area) + 1, 0>>]

\* the column the cursor takes on a line it moves to
Clamp(col, line) == IF col < Len(line) THEN col ELSE Len(line)

\* TextArea::move_cursor(CursorMove::Up) and (CursorMove::Down)
cursor_up(area) ==
    IF Row(area) = 0 THEN area
    ELSE [area EXCEPT !.cursor =
             <<Row(area) - 1, Clamp(Col(area), area.lines[Row(area)])>>]

cursor_down(area) ==
    IF Row(area) + 1 >= Len(area.lines) THEN area
    ELSE [area EXCEPT !.cursor =
             <<Row(area) + 1, Clamp(Col(area), area.lines[Row(area) + 2])>>]

\* TextArea::move_cursor(CursorMove::Forward): at the end of a line the
\* cursor goes to the start of the next one, and stays at the end of the text
cursor_forward(area) ==
    IF Col(area) < Len(CurrentLine(area))
    THEN [area EXCEPT !.cursor = <<Row(area), Col(area) + 1>>]
    ELSE IF Row(area) + 1 < Len(area.lines)
    THEN [area EXCEPT !.cursor = <<Row(area) + 1, 0>>]
    ELSE area

\* TextArea::move_cursor(CursorMove::Head)
cursor_head(area) == [area EXCEPT !.cursor = <<Row(area), 0>>]

\* TextArea::delete_next_char: the character at the cursor goes; at the end
\* of a line the next line is joined to it
delete_next_char(area) ==
    IF Col(area) < Len(CurrentLine(area))
    THEN [area EXCEPT !.lines[Row(area) + 1] =
             SubSeq(@, 1, Col(area)) \o SubSeq(@, Col(area) + 2, Len(@))]
    ELSE IF Row(area) + 1 < Len(area.lines)
    THEN [area EXCEPT !.lines =
             SubSeq(@, 1, Row(area))
               \o <<@[Row(area) + 1] \o @[Row(area) + 2]>>
               \o SubSeq(@, Row(area) + 3, Len(@))]
    ELSE area

RECURSIVE DownTimes(_, _)
DownTimes(n, area) ==
    IF n = 0 THEN area ELSE DownTimes(n - 1, cursor_down(area))

RECURSIVE ForwardTimes(_, _)
ForwardTimes(n, area) ==
    IF n = 0 THEN area ELSE ForwardTimes(n - 1, cursor_forward(area))

RECURSIVE DeleteTimes(_, _)
DeleteTimes(n, area) ==
    IF n = 0 THEN area ELSE DeleteTimes(n - 1, delete_next_char(area))

\* move_cursor_to_end_of_text: Down once per line but the last, then
\* Forward once per character of the last line
move_cursor_to_end_of_text(area) ==
    ForwardTimes(Len(area.lines[Len(area.lines)]),
                 DownTimes(SaturatingSub(Len(area.lines), 1), area))

---------------------------------------------------------------------------
(* shai-cli/src/tui/input.rs: the widget. An Option is <<>> for None and   *)
(* <<x>> for Some(x); an Instant is kept as the time elapsed since it, in  *)
(* units of 100 ms. The fields that only feed the display (placeholder,    *)
(* status_message, last_keystroke_time, helper_set, helper_duration,       *)
(* method) are left out.                                                   *)

\* Duration::from_millis(100) and Duration::from_secs(1), in units of 100 ms
EnterDelay == 1

EscapeWindow == 10

\* UserAction; NoAction is the None of check_pending_enter
Action(kind, text) == [kind |-> kind, text |-> text]

NoAction == Action("None", <<>>)

Nope == Action("Nope", <<>>)

CancelTask == Action("CancelTask", <<>>)

\* a key event: its code, the character of a Char and the ALT modifier
Key(code, ch, alt) == [code |-> code, ch |-> ch, alt |-> alt]

NoKey == Key("", "", FALSE)

\* what user_action holds: the call made on the widget by the last step
\* ("" if it made none), the key it was given and the UserAction it returned
Called(call, key, action) ==
    [call |-> call, key |-> key, kind |-> action.kind, text |-> action.text]

NotCalled == Called("", NoKey, NoAction)

\* InputArea::default()
Default ==
    [agent_running |-> FALSE,
     input |-> EmptyArea,
     current_draft |-> <<>>,
     animation_start |-> FALSE,
     pending_enter |-> <<>>,
     helper_msg |-> <<>>,
     escape_press_time |-> <<>>,
     help |-> FALSE,
     history |-> <<>>,
     history_index |-> 0,
     file_suggestions |-> <<>>,
     suggestion_index |-> <<>>,
     suggestion_search |-> <<>>]

\* what a call on the widget leaves and returns
Returned(w, action) == [area |-> w, action |-> action]

set_history(w, history) ==
    [w EXCEPT !.history = history, !.history_index = Len(history)]

set_agent_running(w, running) ==
    [w EXCEPT !.agent_running = running, !.animation_start = running]

\* the position of the last "@" among the first n characters of a line,
\* counted from 0; -1 if there is none
LastAt(line, n) ==
    IF \E i \in 1..n : line[i] = "@"
    THEN (CHOOSE i \in 1..n :
             line[i] = "@" /\ \A j \in (i + 1)..n : line[j] # "@") - 1
    ELSE -1

\* detect_file_search: <<>>, or <<at_pos, after_at>> when the cursor stands
\* behind an "@" with no space in between
FileSearch(line, col, at_pos) ==
    IF at_pos < 0 THEN <<>>
    ELSE IF \E i \in (at_pos + 2)..col : line[i] = " " THEN <<>>
    ELSE <<at_pos, SubSeq(line, at_pos + 2, col)>>

detect_file_search(w) ==
    FileSearch(CurrentLine(w.input),
               Clamp(Col(w.input), CurrentLine(w.input)),
               LastAt(CurrentLine(w.input),
                      Clamp(Col(w.input), CurrentLine(w.input))))

\* search_files on the files `dir` that the walk of the working directory
\* yields: those whose path contains the pattern, whatever the case
search_files(pattern, dir) ==
    LET matches(path) == \/ pattern = <<>>
                         \/ contains(to_lowercase(path), to_lowercase(pattern))
    IN SelectSeq(dir, matches)

Suggest(w, search, found) ==
    [w EXCEPT !.suggestion_search = <<search>>,
              !.file_suggestions = found,
              !.suggestion_index = IF found = <<>> THEN <<>> ELSE <<0>>]

ClearSuggestions(w) ==
    [w EXCEPT !.file_suggestions = <<>>,
              !.suggestion_index = <<>>,
              !.suggestion_search = <<>>]

Searched(w, dir, search) ==
    IF search = <<>> THEN ClearSuggestions(w)
    ELSE IF w.suggestion_search # <<search[2]>>
    THEN Suggest(w, search[2], search_files(search[2], dir))
    ELSE w

update_suggestions(w, dir) == Searched(w, dir, detect_file_search(w))

\* replace_file_search once the search is detected
ReplaceSearch(w, file_path, search) ==
    IF search = <<>> THEN w
    ELSE ClearSuggestions(
           [w EXCEPT !.input =
               insert_str(DeleteTimes(1 + Len(search[2]),
                                      ForwardTimes(search[1],
                                                   cursor_head(w.input))),
                          file_path)])

replace_file_search(w, file_path) ==
    ReplaceSearch(w, file_path, detect_file_search(w))

\* the text starts with '/'
IsCommand(text) == text # <<>> /\ text[1] = "/"

\* check_pending_enter once the pending Enter has expired and the agent is
\* not running: the submission of a text whose first line is not empty
Submit(w, text) ==
    Returned([w EXCEPT !.history = Append(@, text),
                       !.history_index = Len(w.history) + 1,
                       !.input = EmptyArea],
             IF IsCommand(text) THEN Action("UserAppCommand", text)
             ELSE Action("UserInput", text))

\* a check_pending_enter that submits while the agent runs
check_pending_enter_running(w) ==
    IF w.pending_enter = <<>> THEN Returned(w, NoAction)
    ELSE IF w.pending_enter[1] < EnterDelay THEN Returned(w, NoAction)
    ELSE IF w.input.lines[1] # <<>>
    THEN Submit([w EXCEPT !.pending_enter = <<>>], join(w.input.lines))
    ELSE Returned([w EXCEPT !.pending_enter = <<>>], NoAction)

check_pending_enter(w) ==
    IF w.pending_enter = <<>> THEN Returned(w, NoAction)
    ELSE IF w.pending_enter[1] < EnterDelay THEN Returned(w, NoAction)
    ELSE IF w.agent_running
    THEN Returned([w EXCEPT !.pending_enter = <<>>], Nope)
    ELSE IF w.input.lines[1] # <<>>
    THEN Submit([w EXCEPT !.pending_enter = <<>>], join(w.input.lines))
    ELSE Returned([w EXCEPT !.pending_enter = <<>>], NoAction)

\* load_historic_prompt
load_historic_prompt(w, index) ==
    IF index < Len(w.history)
    THEN [w EXCEPT !.input =
             move_cursor_to_end_of_text(TextArea(str_lines(w.history[index + 1])))]
    ELSE w

\* all lines of the input are empty
is_empty(w) == \A i \in DOMAIN w.input.lines : w.input.lines[i] = <<>>

\* the end of handle_event for the arms that do not return on their own
Finish(w, dir) == Returned(update_suggestions(w, dir), Nope)

\* handle_event, the pending Enter kept as it is
ConvertPending_kept(w) == w

\* handle_event, lines 329-339: a pending Enter becomes a line feed
ConvertPending(w) ==
    IF w.pending_enter # <<>>
    THEN [w EXCEPT !.pending_enter = <<>>, !.input = insert_newline(@)]
    ELSE w

\* handle_event, KeyCode::Esc
OnEsc(w, dir) ==
    IF w.agent_running THEN Returned(w, CancelTask)
    ELSE IF w.escape_press_time # <<>> /\ w.escape_press_time[1] < EscapeWindow
    THEN Returned([w EXCEPT !.input = EmptyArea,
                            !.escape_press_time = <<>>,
                            !.helper_msg = <<>>], Nope)
    ELSE IF w.input.lines[1] # <<>>
    THEN Finish([w EXCEPT !.escape_press_time = <<0>>,
                          !.helper_msg = <<" press esc again to clear">>],
                dir)
    ELSE Finish(w, dir)

\* handle_event, KeyCode::Enter
OnEnter(w, key) ==
    IF key.alt THEN Returned([w EXCEPT !.input = insert_newline(@)], Nope)
    ELSE IF w.suggestion_index # <<>>
    THEN Returned(IF w.suggestion_index[1] < Len(w.file_suggestions)
                  THEN replace_file_search(
                           w, w.file_suggestions[w.suggestion_index[1] + 1])
                  ELSE w,
                  Nope)
    ELSE Returned([ClearSuggestions(w) EXCEPT !.pending_enter = <<0>>], Nope)

\* Up and Down while there are file suggestions
PreviousSuggestion(w) ==
    IF w.suggestion_index = <<>> THEN w
    ELSE [w EXCEPT !.suggestion_index =
             <<IF @[1] > 0 THEN @[1] - 1 ELSE Len(w.file_suggestions) - 1>>]

NextSuggestion(w) ==
    IF w.suggestion_index = <<>> THEN w
    ELSE [w EXCEPT !.suggestion_index =
             <<(@[1] + 1) % Len(w.file_suggestions)>>]

\* Up in the history: the text typed at the newest position is saved as
\* the draft, and the entry before the current one is loaded
HistoryUp(w) ==
    load_historic_prompt(
        [w EXCEPT !.current_draft =
                     IF w.history_index = Len(w.history) /\ ~is_empty(w)
                     THEN <<join(w.input.lines)>> ELSE @,
                  !.history_index = @ - 1],
        w.history_index - 1)

\* handle_event, KeyCode::Up
OnUp(w, dir) ==
    IF w.file_suggestions # <<>> THEN Returned(PreviousSuggestion(w), Nope)
    ELSE IF /\ w.history # <<>>
            /\ w.history_index > 0
            /\ (is_empty(w) \/ Row(w.input) = 0)
    THEN Finish(HistoryUp(w), dir)
    ELSE IF ~is_empty(w) /\ Row(w.input) > 0
    THEN Finish([w EXCEPT !.input = cursor_up(@)], dir)
    ELSE Finish(w, dir)

\* Down at the newest position: the draft is taken, or the input is emptied
RestoreDraft(w) ==
    IF w.current_draft # <<>>
    THEN [w EXCEPT !.input = move_cursor_to_end_of_text(
                                 TextArea(str_lines(w.current_draft[1]))),
                   !.current_draft = <<>>]
    ELSE [w EXCEPT !.input = EmptyArea]

\* Down in the history without the test history_index < history.len()
HistoryDown_unguarded(w) ==
    IF w.history_index + 1 < Len(w.history)
    THEN load_historic_prompt([w EXCEPT !.history_index = @ + 1],
                              w.history_index + 1)
    ELSE RestoreDraft([w EXCEPT !.history_index = @ + 1])

\* Down in the history
HistoryDown(w) ==
    IF w.history_index < Len(w.history)
    THEN IF w.history_index + 1 < Len(w.history)
         THEN load_historic_prompt([w EXCEPT !.history_index = @ + 1],
                                   w.history_index + 1)
         ELSE RestoreDraft([w EXCEPT !.history_index = @ + 1])
    ELSE w

\* handle_event, KeyCode::Down
OnDown(w, dir) ==
    IF w.file_suggestions # <<>> THEN Returned(NextSuggestion(w), Nope)
    ELSE IF /\ w.history # <<>>
            /\ (is_empty(w) \/ Row(w.input) = Len(w.input.lines) - 1)
    THEN Finish(HistoryDown(w), dir)
    ELSE IF ~is_empty(w) /\ Row(w.input) < Len(w.input.lines) - 1
    THEN Finish([w EXCEPT !.input = cursor_down(@)], dir)
    ELSE Finish(w, dir)

\* handle_event, the arm of every other key: a character is typed
OnChar(w, key, dir) ==
    Finish([w EXCEPT !.help = FALSE, !.input = insert_str(@, <<key.ch>>)],
           dir)

\* handle_event after the pending Enter is converted: the match on the key
OnKey(w, key, dir) ==
    IF key.code = "Char" /\ key.ch = "?" /\ w.input.lines[1] = <<>> /\ ~w.help
    THEN Finish([w EXCEPT !.help = TRUE], dir)
    ELSE IF key.code = "Esc" THEN OnEsc(w, dir)
    ELSE IF key.code = "Enter" THEN OnEnter(w, key)
    ELSE IF key.code = "Up" THEN OnUp(w, dir)
    ELSE IF key.code = "Down" THEN OnDown(w, dir)
    ELSE OnChar(w, key, dir)

handle_event(w, key, dir) == OnKey(ConvertPending(w), key, dir)

---------------------------------------------------------------------------
(* The agent core *)

\* InternalAgentState; token 0 stands for no cancellation token
St(kind, task_name, token) ==
    [kind |-> kind, task_name |-> task_name, token |-> token]

Idle == St("Idle", "", 0)
Running == St("Running", "", 0)
Paused == St("Paused", "", 0)
Processing(task_name, token) == St("Processing", task_name, token)

\* AgentEvent, with the length of the full trace at the time it is emitted
PubEvent(c, type, ok, msg, usage, info) ==
    [type |-> type, ok |-> ok, msg |-> msg, usage |-> usage, info |-> info,
     at |-> Len(c.full_trace)]

NoMsg == Msg("", "none", Text(<<>>), <<>>, 0)

\* ThinkerDecision inside Result<ThinkerDecision, AgentError>
Decision(ok, message, flow, usage, cinfo) ==
    [ok |-> ok, message |-> message, flow |-> flow, usage |-> usage,
     cinfo |-> cinfo]

NoDecision == Decision(FALSE, NoMsg, "", <<>>, FALSE)

\* InternalAgentEvent as it waits in the queue. Of a BrainResult the queue
\* records the task that sent it and the token usage the brain reported; the
\* rest of the decision is drawn when the event is handled (HandleEvent).
Event(type, token, usage, calls) ==
    [type |-> type, token |-> token, usage |-> usage, calls |-> calls]

\* a background task: the brain task of spawn_next_step or a tool batch
Task(kind, token, calls) ==
    [kind |-> kind, token |-> token, calls |-> calls, cancelled |-> FALSE]

set_state(c, s) == [c EXCEPT !.state = s]

emit_event(c, type, ok, msg, usage, info) ==
    [c EXCEPT !.emitted = Append(@, PubEvent(c, type, ok, msg, usage, info))]

Returning(c, r) == [c EXCEPT !.ret = r]

---------------------------------------------------------------------------
(* agent/actions/brain.rs *)

\* spawn_next_step keeping in the state a token the task does not watch
spawn_next_step_other_token(c, tok) ==
    [c EXCEPT !.tasks = @ \cup {Task("brain", tok, <<>>)},
              !.state = Processing("next_step", 0)]

\* spawn_next_step: the spawned task holds a clone of the token kept in the
\* Processing state
spawn_next_step(c, tok) ==
    [c EXCEPT !.tasks = @ \cup {Task("brain", tok, <<>>)},
              !.state = Processing("next_step", tok)]

\* handle_brain_error that reports the error and leaves the state
handle_brain_error_no_pause(c) ==
    Returning(emit_event(c, "BrainResult", FALSE, NoMsg, <<>>, NoInfo), "Err")

\* handle_brain_error, Err branch
handle_brain_error(c) ==
    Returning(emit_event(set_state(c, Paused), "BrainResult", FALSE, NoMsg,
                         <<>>, NoInfo), "Err")

\* a context check that stores the compressed messages as the full trace too
Compressed_both_traces(c1, r) ==
    LET c2 == [c1 EXCEPT !.trace = r.messages, !.full_trace = r.messages,
                         !.compressor = r.comp, !.llm_call = r.call]
    IN IF r.info.some
       THEN emit_event(c2, "ContextCompressed", TRUE, NoMsg, <<>>, r.info)
       ELSE c2

\* what both context checks do with the result r of the compressor: the
\* trace is replaced and, if there is an info, the event is emitted
Compressed(c1, r) ==
    LET c2 == [c1 EXCEPT !.trace = r.messages, !.compressor = r.comp,
                         !.llm_call = r.call]
    IN IF r.info.some
       THEN emit_event(c2, "ContextCompressed", TRUE, NoMsg, <<>>, r.info)
       ELSE c2

\* check_and_compress_context
check_and_compress_context(c, answer, tok) ==
    IF ~c.compressor.present THEN c
    ELSE IF ~should_compress_conversation(c.compressor, c.trace) THEN c
    ELSE Compressed(set_state(c, Processing("context_compression", tok)),
                    compress_messages(c.compressor, c.trace, c.full_trace,
                                      answer))

\* check_and_compress_context_manual that returns to Paused only from inside
\* the branch of a brain with a compressor
check_and_compress_context_manual_inner(c, answer, tok) ==
    Returning(
        IF ~c.compressor.present
        THEN set_state(c, Processing("context_compression", tok))
        ELSE set_state(
                 Compressed(
                     set_state(c, Processing("context_compression", tok)),
                     compress_messages_force(c.compressor, c.trace,
                                             c.full_trace, answer)),
                 Paused),
        "Ok")

\* check_and_compress_context_manual
check_and_compress_context_manual(c, answer, tok) ==
    Returning(
        set_state(
            IF ~c.compressor.present
            THEN set_state(c, Processing("context_compression", tok))
            ELSE Compressed(
                     set_state(c, Processing("context_compression", tok)),
                     compress_messages_force(c.compressor, c.trace,
                                             c.full_trace, answer)),
            Paused),
        "Ok")

\* spawn_tools: hand the calls to the tool executor
spawn_tools(c, calls, tok) ==
    [c EXCEPT !.tasks = @ \cup {Task("tools", tok, calls)},
              !.state = Processing("tools", tok)]

\* the events process_next_step emits once the message is in the traces
EmitDecision(c, d) ==
    LET c2 == emit_event(c, "BrainResult", TRUE, d.message, <<>>, NoInfo)
        c3 == IF d.usage # <<>>
              THEN emit_event(c2, "TokenUsage", TRUE, NoMsg, d.usage, NoInfo)
              ELSE c2
    IN IF d.cinfo
       THEN emit_event(c3, "ContextCompressed", TRUE, NoMsg, <<>>, NoInfo)
       ELSE c3

\* following the decision without setting Paused on AgentPause
FollowDecision_no_pause(c, d, tok) ==
    IF d.message.calls # <<>>
    THEN Returning(spawn_tools(c, d.message.calls, tok), "Ok")
    ELSE IF d.flow = "AgentContinue"
    THEN Returning(set_state(c, Running), "Ok")
    ELSE Returning(c, "Ok")

\* what process_next_step does after the events: tool calls, else the flow
FollowDecision(c, d, tok) ==
    IF d.message.calls # <<>>
    THEN Returning(spawn_tools(c, d.message.calls, tok), "Ok")
    ELSE IF d.flow = "AgentContinue"
    THEN Returning(set_state(c, Running), "Ok")
    ELSE Returning(set_state(c, Paused), "Ok")

\* accepting the message without logging it in the full trace
AcceptDecision_trace_only(c, d, tok) ==
    FollowDecision(EmitDecision([c EXCEPT !.trace = Append(@, d.message)], d),
                   d, tok)

\* accepting the message and consulting the flow before the tool calls
AcceptDecision_flow_first(c, d, tok) ==
    LET c1 == EmitDecision([c EXCEPT !.trace = Append(@, d.message),
                                     !.full_trace = Append(@, d.message)], d)
    IN IF d.flow = "AgentPause" THEN Returning(set_state(c1, Paused), "Ok")
       ELSE FollowDecision(c1, d, tok)

\* accepting the message and pausing whatever the flow says
AcceptDecision_always_pause(c, d, tok) ==
    LET c1 == EmitDecision([c EXCEPT !.trace = Append(@, d.message),
                                     !.full_trace = Append(@, d.message)], d)
    IN IF d.message.calls # <<>> THEN FollowDecision(c1, d, tok)
       ELSE Returning(set_state(c1, Paused), "Ok")

\* process_next_step from the push of the message on (brain.rs:58-107)
AcceptDecision(c, d, tok) ==
    LET c1 == [c EXCEPT !.trace = Append(@, d.message),
                        !.full_trace = Append(@, d.message)]
    IN FollowDecision(EmitDecision(c1, d), d, tok)

\* process_next_step once the context is checked: the match on the result
HandleResult(c1, result, tok2) ==
    IF ~result.ok THEN handle_brain_error(c1)
    ELSE IF result.message.role # "Assistant" THEN handle_brain_error(c1)
    ELSE AcceptDecision(c1, result, tok2)

\* process_next_step checking the context after it has handled the result
process_next_step_compress_after(c, result, answer, tok1, tok2) ==
    [check_and_compress_context(HandleResult(c, result, tok2), answer, tok1)
        EXCEPT !.state = HandleResult(c, result, tok2).state]

\* process_next_step
process_next_step(c, result, answer, tok1, tok2) ==
    HandleResult(check_and_compress_context(c, answer, tok1), result, tok2)

---------------------------------------------------------------------------
(* agent/states/pause.rs *)

\* a Paused handler that reports a cancellation once more
state_pause_handle_event_reports(c, ev, answer, tok) ==
    IF ev.type = "CancelTask"
    THEN Returning(emit_event(c, "TaskCancelled", TRUE, NoMsg, <<>>, NoInfo),
                   "Ok")
    ELSE IF ev.type = "ManualCompressionRequested"
    THEN check_and_compress_context_manual(c, answer, tok)
    ELSE Returning(c, "Ok")

state_pause_handle_event(c, ev, answer, tok) ==
    IF ev.type = "CancelTask" THEN Returning(c, "Ok")
    ELSE IF ev.type = "ManualCompressionRequested"
    THEN check_and_compress_context_manual(c, answer, tok)
    ELSE Returning(c, "Ok")

---------------------------------------------------------------------------
(* The rest of the state machine: the handlers of the other states and the  *)
(* event loop, as the specification describes them (sections 4.1 to 4.3,   *)
(* 5).                                                                     *)

\* the tool calls of the last Assistant message that have no Tool message yet
RECURSIVE Unanswered(_)
Unanswered(msgs) ==
    IF msgs = <<>> THEN <<>>
    ELSE LET final == msgs[Len(msgs)]
             front == SubSeq(msgs, 1, Len(msgs) - 1)
         IN IF final.role = "Assistant" THEN final.calls
            ELSE IF final.role = "Tool"
            THEN LET keep(id) == id # final.id
                 IN SelectSeq(Unanswered(front), keep)
            ELSE <<>>

RECURSIVE ToolMsgs(_)
ToolMsgs(calls) ==
    IF calls = <<>> THEN <<>>
    ELSE <<ToolMsg(Head(calls))>> \o ToolMsgs(Tail(calls))

AppendBoth(c, msgs) ==
    [c EXCEPT !.trace = @ \o msgs, !.full_trace = @ \o msgs]

\* the users of the model never say the same thing twice: the n-th User
\* message of a conversation is the n-th request
NextUserMsg(full) ==
    LET users(m) == m.role = "User"
    IN UserMsg(Len(SelectSeq(full, users)) + 1)

\* UserInput: appended in Idle and Paused, which then run the brain;
\* rejected with an alert while a task is in flight
handle_user_input(c) ==
    IF c.state.kind \in {"Idle", "Paused"}
    THEN Returning(set_state(AppendBoth(c, <<NextUserMsg(c.full_trace)>>),
                             Running), "Ok")
    ELSE Returning(emit_event(c, "UserInputRejected", FALSE, NoMsg, <<>>,
                              NoInfo), "Ok")

\* firing the cancel handle of the Processing state: the brain task that
\* watches the token sees it cancelled, a tool batch stops at once
FireToken(c) ==
    [c EXCEPT !.tasks =
        {IF t.token = c.state.token THEN [t EXCEPT !.cancelled = TRUE] ELSE t :
            t \in {u \in @ : ~(u.kind = "tools" /\ u.token = c.state.token)}}]

\* CancelTask in Processing: every tool call still open gets a Tool message
\* saying it was cancelled
handle_cancel(c) ==
    Returning(
        set_state(
            emit_event(
                IF c.state.task_name = "tools"
                THEN AppendBoth(FireToken(c), ToolMsgs(Unanswered(c.trace)))
                ELSE FireToken(c),
                "TaskCancelled", TRUE, NoMsg, <<>>, NoInfo),
            Paused),
        "Ok")

\* ToolsResult in Processing{tools}: one Tool message per outcome, in the
\* order of the calls, then the next brain step
process_tools_result(c, ev, tok) ==
    Returning(spawn_next_step(AppendBoth(c, ToolMsgs(ev.calls)), tok), "Ok")

state_processing_handle_event(c, ev, result, answer, tok1, tok2) ==
    IF ev.type = "CancelTask" THEN handle_cancel(c)
    ELSE IF ev.type = "BrainResult" /\ c.state.task_name = "next_step"
    THEN process_next_step(c, result, answer, tok1, tok2)
    ELSE IF ev.type = "ToolsResult" /\ c.state.task_name = "tools"
    THEN process_tools_result(c, ev, tok2)
    ELSE IF ev.type = "ManualCompressionRequested"
    THEN Returning([c EXCEPT !.pending_compress = TRUE], "Ok")
    ELSE Returning(c, "Ok")

state_idle_handle_event(c, ev) ==
    IF ev.type = "ManualCompressionRequested"
    THEN Returning([c EXCEPT !.pending_compress = TRUE], "Ok")
    ELSE Returning(c, "Ok")

dispatch(c, ev, result, answer, tok1, tok2) ==
    IF ev.type = "UserInput" THEN handle_user_input(c)
    ELSE IF c.state.kind = "Paused"
    THEN state_pause_handle_event(c, ev, answer, tok1)
    ELSE IF c.state.kind = "Processing"
    THEN state_processing_handle_event(c, ev, result, answer, tok1, tok2)
    ELSE state_idle_handle_event(c, ev)

\* One iteration of the event loop: the handler of the event, a manual
\* compression that was waiting for Paused, and the spawn that leaves Running
LeaveRunning(c2, tok2) ==
    IF c2.state.kind = "Running" THEN spawn_next_step(c2, tok2) ELSE c2

PendingCompression(c1, answer, tok1) ==
    IF c1.state.kind = "Paused" /\ c1.pending_compress
    THEN [check_and_compress_context_manual(c1, answer, tok1)
              EXCEPT !.pending_compress = FALSE, !.ret = c1.ret]
    ELSE c1

loop_iteration(c, ev, result, answer, tok1, tok2) ==
    LeaveRunning(
        PendingCompression(
            dispatch([c EXCEPT !.emitted = <<>>, !.llm_call = NoCall],
                     ev, result, answer, tok1, tok2),
            answer, tok1),
        tok2)

---------------------------------------------------------------------------
(* The system: the controller, the background tasks and the event loop *)

core == [state |-> state, trace |-> trace, full_trace |-> full_trace,
         compressor |-> compressor, tasks |-> tasks, emitted |-> emitted,
         ret |-> ret, pending_compress |-> pending_compress,
         llm_call |-> llm_call]

Install(c) ==
    /\ state' = c.state
    /\ trace' = c.trace
    /\ full_trace' = c.full_trace
    /\ compressor' = c.compressor
    /\ tasks' = c.tasks
    /\ emitted' = c.emitted
    /\ ret' = c.ret
    /\ pending_compress' = c.pending_compress
    /\ llm_call' = c.llm_call
    /\ UNCHANGED <<model_name, max_context, input_area, user_action>>

UsedTokens ==
    {t.token : t \in tasks} \cup {queue[i].token : i \in DOMAIN queue}
        \cup {state.token}

FreshToken(used) == CHOOSE n \in 1..(Cardinality(used) + 1) :
    /\ n \notin used
    /\ \A m \in 1..(n - 1) : m \in used

\* what a brain task can return
BrainDecisions ==
    {NoDecision} \cup
    {Decision(TRUE, UserMsg(0), "AgentPause", usage, FALSE) :
        usage \in UsageChoices} \cup
    {Decision(TRUE, AssistantMsg(calls), flow, usage, cinfo) :
        calls \in CallsChoices, flow \in {"AgentContinue", "AgentPause"},
        usage \in UsageChoices, cinfo \in BOOLEAN}

ControllerTypes ==
    {"UserInput", "CancelTask", "ManualCompressionRequested"}

ControllerPending ==
    Cardinality({i \in DOMAIN queue : queue[i].type \in ControllerTypes})

\* messages the full trace may still receive for what is already under way:
\* a User message per queued UserInput, a Tool message per open tool call
Room(bound) ==
    bound - Len(full_trace)
      - Cardinality({i \in DOMAIN queue : queue[i].type = "UserInput"})
      - (IF state.task_name = "tools" THEN Len(Unanswered(trace)) ELSE 0)

\* messages a decision adds, with the Tool messages its calls will need
Growth(d) ==
    IF d.ok /\ d.message.role = "Assistant"
    THEN 1 + Len(d.message.calls) ELSE 0

Controller(type) == Event(type, 0, <<>>, <<>>)

\* a step outside the event loop: the loop's variables stay, and the record
\* of what the last iteration emitted and returned is cleared
NoLast == [type |-> "", result |-> NoDecision, from |-> Idle]

OutsideLoop ==
    /\ emitted' = <<>>
    /\ ret' = ""
    /\ last' = NoLast
    /\ llm_call' = NoCall
    /\ UNCHANGED <<state, trace, full_trace, pending_compress>>
    /\ UNCHANGED <<model_name, max_context, input_area, user_action>>

\* AgentController::send_user_input
Send(type) ==
    /\ queue' = Append(queue, Controller(type))
    /\ OutsideLoop
    /\ UNCHANGED <<compressor, tasks>>

\* The brain task of spawn_next_step, first branch of its select: next_step
\* returned and the result is sent. The token may already be cancelled: both
\* branches of the select can be ready at once. The brain counts the usage
\* it reports into its compressor.
BrainTaskSendOf(t) ==
    \E usage \in UsageChoices :
        /\ t.kind = "brain"
        /\ usage # <<>> =>
             compressor.current_tokens + usage[1] + usage[2] <= TokenCap
        /\ queue' = Append(queue, Event("BrainResult", t.token, usage, <<>>))
        /\ tasks' = tasks \ {t}
        /\ compressor' =
             IF usage # <<>> /\ compressor.present
             THEN update_token_count(compressor, usage[1], usage[2])
             ELSE compressor
        /\ OutsideLoop

\* second branch of the select: the token is cancelled, nothing is sent
BrainTaskCancelled ==
    \E t \in tasks :
        /\ t.kind = "brain"
        /\ t.cancelled
        /\ tasks' = tasks \ {t}
        /\ OutsideLoop
        /\ UNCHANGED <<compressor, queue>>

\* the tool executor delivers the outcomes of a batch, in the order of the calls
ToolsTaskSend ==
    \E t \in tasks :
        /\ t.kind = "tools"
        /\ queue' = Append(queue, Event("ToolsResult", t.token, <<>>, t.calls))
        /\ tasks' = tasks \ {t}
        /\ OutsideLoop
        /\ UNCHANGED compressor

\* the decisions a queued event can turn out to carry
ResultsOf(ev, bound) ==
    IF ev.type = "BrainResult"
    THEN {d \in BrainDecisions :
            /\ d.usage = ev.usage \/ (~d.ok /\ ev.usage = <<>>)
            /\ Growth(d) <= Room(bound)}
    ELSE {NoDecision}

\* the event loop takes the next event and runs one iteration on it
HandleWith(result, answer) ==
    /\ queue # <<>>
    /\ LET tok1 == FreshToken(UsedTokens)
           tok2 == FreshToken(UsedTokens \cup {tok1})
       IN Install(loop_iteration(core, Head(queue), result, answer, tok1, tok2))
    /\ queue' = Tail(queue)
    /\ last' = [type |-> Head(queue).type, result |-> result, from |-> state]

\* the summarizer is asked only when compression has a middle to summarize
AnswersFor(msgs) ==
    IF MiddleOf(NonSystem(NonSummary(msgs))) # <<>> THEN LlmAnswers
    ELSE {CallFailed}

Handle(bound) ==
    /\ queue # <<>>
    /\ \E result \in ResultsOf(Head(queue), bound),
          answer \in AnswersFor(trace) :
         HandleWith(result, answer)

Init ==
    /\ state = Idle
    /\ trace = <<PromptMsg>>
    /\ full_trace = <<PromptMsg>>
    /\ compressor \in
         {NewCompressor(m, TRUE, TRUE) : m \in MaxTokensChoices}
         \cup {NewCompressor(0, FALSE, FALSE)}
    /\ tasks = {}
    /\ queue = <<>>
    /\ emitted = <<>>
    /\ ret = ""
    /\ pending_compress = FALSE
    /\ last = NoLast
    /\ llm_call = NoCall
    /\ model_name = <<>>
    /\ max_context = 0
    /\ input_area = Default
    /\ user_action = NotCalled

---------------------------------------------------------------------------
(* Spec: everything interleaves *)

\* AgentController::send_user_input
SendUserInput ==
    /\ ControllerPending < MaxQueue
    /\ Room(MaxFull) >= 1
    /\ Send("UserInput")

\* AgentController::cancel_current_task
CancelCurrentTask ==
    /\ ControllerPending < MaxQueue
    /\ Cardinality({t \in tasks : t.cancelled})
         + Cardinality({i \in DOMAIN queue : queue[i].type = "CancelTask"})
         < MaxStale
    /\ Send("CancelTask")

\* AgentController::request_manual_compression
RequestManualCompression ==
    /\ ControllerPending < MaxQueue
    /\ Send("ManualCompressionRequested")

BrainTaskSend == \E t \in tasks : BrainTaskSendOf(t)

HandleEvent == Handle(MaxFull)

Next ==
    \/ SendUserInput
    \/ CancelCurrentTask
    \/ RequestManualCompression
    \/ BrainTaskSend
    \/ BrainTaskCancelled
    \/ ToolsTaskSend
    \/ HandleEvent

Spec == Init /\ [][Next]_vars

---------------------------------------------------------------------------
(* TurnSpec: the same agent with a patient controller, which sends a       *)
(* command only when the queue is empty, sends user input and compression  *)
(* requests only when no task is in flight, and whose cancelled brain task *)
(* always takes the cancelled branch. Its runs are runs of the agent, and  *)
(* they reach long conversations.                                          *)

Quiet == queue = <<>>

TurnUserInput ==
    /\ Quiet /\ tasks = {}
    /\ Room(MaxLong) >= 1
    /\ Send("UserInput")

TurnCancel ==
    /\ Quiet /\ tasks # {}
    /\ \A t \in tasks : ~t.cancelled
    /\ Send("CancelTask")

TurnManualCompression ==
    /\ Quiet /\ tasks = {}
    /\ Send("ManualCompressionRequested")

TurnBrainSend == \E t \in tasks : ~t.cancelled /\ Quiet /\ BrainTaskSendOf(t)

TurnBrainCancelled == BrainTaskCancelled

TurnToolsSend == Quiet /\ ToolsTaskSend

TurnHandle == Handle(MaxLong)

TurnNext ==
    \/ TurnUserInput
    \/ TurnCancel
    \/ TurnManualCompression
    \/ TurnBrainSend
    \/ TurnBrainCancelled
    \/ TurnToolsSend
    \/ TurnHandle

TurnSpec == Init /\ [][TurnNext]_vars

---------------------------------------------------------------------------
(* CompressorSpec: the compressor alone. A trace is built message by       *)
(* message and compress_messages or compress_messages_force is applied to  *)
(* it, for every compressor state drawn in CompressorInit; state.task_name *)
(* names the last operation.                                               *)

Applied(op) == St("Compressor", op, 0)

CompressorFrame ==
    /\ tasks' = tasks
    /\ queue' = queue
    /\ ret' = ret
    /\ pending_compress' = pending_compress
    /\ last' = last
    /\ UNCHANGED <<model_name, max_context, input_area, user_action>>

CompressorInit ==
    /\ state = Applied("new")
    /\ trace = <<PromptMsg>>
    /\ full_trace = <<PromptMsg>>
    /\ compressor \in
         {[NewCompressor(m, TRUE, TRUE) EXCEPT !.current_tokens = n] :
             m \in SizeChoices, n \in CountChoices}
         \cup {[NewCompressor(m, FALSE, TRUE) EXCEPT !.current_tokens = n] :
                  m \in MaxTokensChoices, n \in CountChoices}
    /\ tasks = {}
    /\ queue = <<>>
    /\ emitted = <<>>
    /\ ret = ""
    /\ pending_compress = FALSE
    /\ last = NoLast
    /\ llm_call = NoCall
    /\ model_name = <<>>
    /\ max_context = 0
    /\ input_area = Default
    /\ user_action = NotCalled

\* the conversation grows by a message
PushMessage ==
    \E m \in {NextUserMsg(full_trace), AssistantMsg(<<>>)}
               \cup (IF Len(full_trace) = 1 THEN {UserPartsMsg} ELSE {}) :
        /\ Len(NonSystem(trace)) < MaxInput
        /\ Len(full_trace) <= MaxInput
        /\ trace' = Append(trace, m)
        /\ full_trace' = Append(full_trace, m)
        /\ state' = Applied("push")
        /\ emitted' = <<>>
        /\ compressor' = compressor
        /\ llm_call' = NoCall
        /\ CompressorFrame

InstallCompressed(r, op) ==
    /\ trace' = r.messages
    /\ compressor' = r.comp
    /\ emitted' = IF r.info.some
                  THEN <<PubEvent(core, "ContextCompressed", TRUE, NoMsg,
                                  <<>>, r.info)>>
                  ELSE <<>>
    /\ llm_call' = r.call
    /\ state' = Applied(op)
    /\ full_trace' = full_trace
    /\ CompressorFrame

\* the summarizer is called only by a compression that runs, has a middle
\* to summarize and has a client to call
ResponsesFor(runs) ==
    IF /\ runs
       /\ compressor.has_llm
       /\ MiddleOf(NonSystem(NonSummary(trace))) # <<>>
    THEN LlmResponses
    ELSE {CallFailed}

CompressMessages ==
    \E answer \in ResponsesFor(should_compress(compressor)) :
        InstallCompressed(compress_messages(compressor, trace, full_trace,
                                            answer),
                          "compress_messages")

CompressMessagesForce ==
    \E answer \in ResponsesFor(TRUE) :
        InstallCompressed(compress_messages_force(compressor, trace,
                                                  full_trace, answer),
                          "compress_messages_force")

CompressorNext ==
    \/ PushMessage
    \/ CompressMessages
    \/ CompressMessagesForce

CompressorSpec == CompressorInit /\ [][CompressorNext]_vars

---------------------------------------------------------------------------
(* CounterSpec: the token counter of the compressor alone. From every     *)
(* compressor state of CompressorInit, update_token_count and the two     *)
(* compressions are applied in any order. A call that panics ends the     *)
(* behaviour; ret records the panic and last the arguments of the call.   *)
(* Calls whose exact sum fits 32 bits are followed up to TokenCap.        *)

\* <<input_tokens, output_tokens>> of the calls: the usage of a small
\* request, of an ordinary one, and the largest values of the range that
\* the model's integers can hold (2^31 - 1; a u32 goes up to 2^32 - 1)
TokenUpdates ==
    {<<1, 0>>, <<80, 10>>, <<2147483647, 0>>, <<2147483647, 2147483647>>}

Updated(input_tokens, output_tokens) ==
    [type |-> "update_token_count",
     result |-> Decision(TRUE, NoMsg, "", <<input_tokens, output_tokens>>,
                         FALSE),
     from |-> Idle]

UpdateTokenCount ==
    \E p \in TokenUpdates, checked \in BOOLEAN :
        /\ ret = ""
        /\ LET wraps == update_token_count_overflows(compressor, p[1], p[2])
               sum == TokenSums(compressor, p[1], p[2])[2]
           IN  /\ ~wraps => (checked /\ sum[1] = 0 /\ sum[2] <= TokenCap)
               /\ compressor' =
                    IF wraps /\ checked THEN compressor
                    ELSE update_token_count(compressor, p[1], p[2])
               /\ ret' = IF wraps /\ checked THEN "panic" ELSE ""
        /\ last' = Updated(p[1], p[2])
        /\ state' = Applied("update_token_count")
        /\ emitted' = <<>>
        /\ llm_call' = NoCall
        /\ UNCHANGED <<trace, full_trace, tasks, queue, pending_compress>>
        /\ UNCHANGED <<model_name, max_context, input_area, user_action>>

CounterCompress ==
    /\ ret = ""
    /\ CompressMessages

CounterCompressForce ==
    /\ ret = ""
    /\ CompressMessagesForce

CounterNext ==
    \/ UpdateTokenCount
    \/ CounterCompress
    \/ CounterCompressForce

CounterSpec == CompressorInit /\ [][CounterNext]_vars

---------------------------------------------------------------------------
(* PauseSpec: state_pause_handle_event alone. The agent is Paused after a  *)
(* conversation of up to MaxPaused messages; internal events of every      *)
(* type arrive one at a time, in any order, and each is handled by the     *)
(* Paused handler.                                                         *)

RECURSIVE Conversation(_)
Conversation(k) ==
    IF k = 0 THEN <<>>
    ELSE Conversation(k - 1) \o
         <<IF k % 2 = 1 THEN UserMsg((k + 1) \div 2) ELSE AssistantMsg(<<>>)>>

PauseInit ==
    /\ state = Paused
    /\ \E k \in 0..MaxPaused :
          /\ trace = <<PromptMsg>> \o Conversation(k)
          /\ full_trace = <<PromptMsg>> \o Conversation(k)
    /\ compressor \in
         {NewCompressor(m, TRUE, TRUE) : m \in MaxTokensChoices}
         \cup {NewCompressor(0, FALSE, FALSE)}
    /\ tasks = {}
    /\ queue = <<>>
    /\ emitted = <<>>
    /\ ret = ""
    /\ pending_compress = FALSE
    /\ last = NoLast
    /\ llm_call = NoCall
    /\ model_name = <<>>
    /\ max_context = 0
    /\ input_area = Default
    /\ user_action = NotCalled

\* the internal events: the three of the controller, the result of a brain
\* task and the result of a tool batch
PauseEvents ==
    {Controller(type) : type \in ControllerTypes}
    \cup {Event("BrainResult", 1, usage, <<>>) : usage \in UsageChoices}
    \cup {Event("ToolsResult", 1, <<>>, <<1>>)}

PauseReceive ==
    \E ev \in PauseEvents :
        /\ queue = <<>>
        /\ queue' = <<ev>>
        /\ OutsideLoop
        /\ UNCHANGED <<compressor, tasks>>

PauseHandle ==
    /\ queue # <<>>
    /\ state.kind = "Paused"
    /\ \E result \in ResultsOf(Head(queue), MaxLong),
          answer \in AnswersFor(trace) :
         /\ Install(state_pause_handle_event(
                        [core EXCEPT !.emitted = <<>>, !.llm_call = NoCall],
                        Head(queue), answer, FreshToken(UsedTokens)))
         /\ last' = [type |-> Head(queue).type, result |-> result,
                     from |-> state]
    /\ queue' = Tail(queue)

PauseNext ==
    \/ PauseReceive
    \/ PauseHandle

PauseSpec == PauseInit /\ [][PauseNext]_vars

---------------------------------------------------------------------------
(* LookupSpec: get_max_context alone, called once with each of the names   *)
(* of ModelNames: the entries of the table and the empty name, as they are *)
(* and capitalised, each followed by nothing or by a suffix, and a name    *)
(* that resembles no entry.                                                *)

Suffixes ==
    {<<>>, <<"-", "7", "b">>, <<"-", "c", "o", "d", "e", "r">>,
     <<"-", "C", "o", "d", "e", "r", "-", "3", "2", "B">>}

Capitalised(name) ==
    IF name = <<>> THEN name
    ELSE IF \E i \in DOMAIN LowerCase : LowerCase[i] = name[1]
    THEN <<UpperCase[CHOOSE i \in DOMAIN LowerCase : LowerCase[i] = name[1]]>>
         \o Tail(name)
    ELSE name

UnknownModel ==
    <<"u", "n", "k", "n", "o", "w", "n", "-", "m", "o", "d", "e", "l", "-",
      "x", "y", "z">>

ModelNames ==
    {stem \o suffix :
        stem \in {<<>>} \cup {models[i][1] : i \in DOMAIN models}
                 \cup {Capitalised(models[i][1]) : i \in DOMAIN models},
        suffix \in Suffixes}
    \cup {UnknownModel}

LookupInit ==
    /\ model_name \in ModelNames
    /\ max_context = 0
    /\ input_area = Default
    /\ user_action = NotCalled
    /\ state = Idle
    /\ trace = <<PromptMsg>>
    /\ full_trace = <<PromptMsg>>
    /\ compressor = NewCompressor(0, FALSE, FALSE)
    /\ tasks = {}
    /\ queue = <<>>
    /\ emitted = <<>>
    /\ ret = ""
    /\ pending_compress = FALSE
    /\ last = NoLast
    /\ llm_call = NoCall

GetMaxContext ==
    /\ max_context = 0
    /\ max_context' = get_max_context(model_name)
    /\ UNCHANGED <<model_name, state, trace, full_trace, compressor, tasks,
                   queue, emitted, ret, pending_compress, last, llm_call,
                   input_area, user_action>>

LookupNext == GetMaxContext

LookupSpec == LookupInit /\ [][LookupNext]_vars

---------------------------------------------------------------------------
(* ThresholdSpec: should_compress alone. A compressor is built with        *)
(* ContextCompressor::new for one of FreshSizes, as the unit test builds   *)
(* it, and update_token_count is called on it any number of times.         *)

\* max_tokens the compressor is built with: the 1000 of the unit test and
\* smaller sizes
FreshSizes == {1, 2, 10, 100, 1000}

\* the usage reported: the (800, 0) of the unit test and smaller ones
UsageReports == {<<800, 0>>, <<100, 0>>, <<0, 50>>, <<80, 10>>}

ThresholdInit ==
    /\ state = Applied("new")
    /\ trace = <<PromptMsg>>
    /\ full_trace = <<PromptMsg>>
    /\ compressor \in {NewCompressor(n, FALSE, TRUE) : n \in FreshSizes}
    /\ tasks = {}
    /\ queue = <<>>
    /\ emitted = <<>>
    /\ ret = ""
    /\ pending_compress = FALSE
    /\ last = NoLast
    /\ llm_call = NoCall
    /\ model_name = <<>>
    /\ max_context = 0
    /\ input_area = Default
    /\ user_action = NotCalled

CountUsage ==
    \E p \in UsageReports :
        /\ compressor.current_tokens + p[1] + p[2] <= CountCap
        /\ compressor' = update_token_count(compressor, p[1], p[2])
        /\ last' = Updated(p[1], p[2])
        /\ state' = Applied("update_token_count")
        /\ UNCHANGED <<trace, full_trace, tasks, queue, emitted, ret,
                       pending_compress, llm_call, model_name, max_context,
                       input_area, user_action>>

ThresholdNext == CountUsage

ThresholdSpec == ThresholdInit /\ [][ThresholdNext]_vars

---------------------------------------------------------------------------
(* NoticeSpec: compress_messages on a compressor without client whose      *)
(* counter was set by hand, as tests::test_message_compression sets it: to *)
(* 85 percent of max_tokens, and to 90 percent, where the threshold lies.  *)
(* The conversation grows by any message and compress_messages is called   *)
(* at any time.                                                            *)

\* max_tokens of the compressor: the 1000 of the unit test, and 100
NoticeSizes == {100, 1000}

\* the percentages of max_tokens the counter is set to
NoticePercents == {85, 90}

NoticeInit ==
    /\ state = Applied("new")
    /\ trace = <<PromptMsg>>
    /\ full_trace = <<PromptMsg>>
    /\ compressor \in
         {[NewCompressor(n, FALSE, TRUE)
              EXCEPT !.current_tokens = (n * pc) \div 100] :
             n \in NoticeSizes, pc \in NoticePercents}
    /\ tasks = {}
    /\ queue = <<>>
    /\ emitted = <<>>
    /\ ret = ""
    /\ pending_compress = FALSE
    /\ last = NoLast
    /\ llm_call = NoCall
    /\ model_name = <<>>
    /\ max_context = 0
    /\ input_area = Default
    /\ user_action = NotCalled

NoticeNext ==
    \/ PushMessage
    \/ CompressMessages

NoticeSpec == NoticeInit /\ [][NoticeNext]_vars

---------------------------------------------------------------------------
(* InputSpec: the input widget alone. Keys are pressed, the interface      *)
(* calls check_pending_enter between them, the agent starts and stops and  *)
(* time passes, in any order. The history starts empty and grows by the    *)
(* submissions.                                                            *)

\* the keys pressed: the characters that start a command, start a file
\* search and open the help, Enter, Alt+Enter, Esc and Down
Keys ==
    {Key("Char", ch, FALSE) : ch \in {"/", "@", "?"}}
    \cup {Key("Enter", "", FALSE), Key("Enter", "", TRUE), Key("Esc", "", FALSE),
          Key("Down", "", FALSE)}

\* what the walk of the working directory may yield: no file, or two
Directories == {<<>>, <<<<"a">>, <<"/", "a">>>>}

\* the characters of all lines together
RECURSIVE CharCount(_)
CharCount(lines) ==
    IF lines = <<>> THEN 0 ELSE Len(Head(lines)) + CharCount(Tail(lines))

\* the key types a character: every Char but a "?", which is pressed only
\* where it opens the help
Types(w, key) == key.code = "Char" /\ key.ch # "?"

OpensHelp(w, key) ==
    key.code = "Char" /\ key.ch = "?" =>
        (ConvertPending(w).input.lines[1] = <<>> /\ ~w.help)

\* the lines the key adds: one for any key while an Enter is pending, one
\* for Alt+Enter
Breaks(w, key) ==
    (IF w.pending_enter # <<>> THEN 1 ELSE 0)
      + (IF key.code = "Enter" /\ key.alt THEN 1 ELSE 0)

InputFrame ==
    UNCHANGED <<state, trace, full_trace, compressor, tasks, queue, emitted,
                ret, pending_compress, last, llm_call, model_name,
                max_context>>

InputInit ==
    /\ input_area = Default
    /\ user_action = NotCalled
    /\ state = Idle
    /\ trace = <<PromptMsg>>
    /\ full_trace = <<PromptMsg>>
    /\ compressor = NewCompressor(0, FALSE, FALSE)
    /\ tasks = {}
    /\ queue = <<>>
    /\ emitted = <<>>
    /\ ret = ""
    /\ pending_compress = FALSE
    /\ last = NoLast
    /\ llm_call = NoCall
    /\ model_name = <<>>
    /\ max_context = 0

SetAgentRunning ==
    \E running \in BOOLEAN :
        /\ input_area' = set_agent_running(input_area, running)
        /\ user_action' = NotCalled
        /\ InputFrame

\* handle_event on one of the keys, with the files the directory holds
HandleKeyOf(keys, dirs) ==
    \E key \in keys, dir \in dirs :
        /\ Types(input_area, key) =>
              CharCount(input_area.input.lines) < MaxChars
        /\ OpensHelp(input_area, key)
        /\ Len(input_area.input.lines) + Breaks(input_area, key) <= MaxLines
        /\ input_area' = handle_event(input_area, key, dir).area
        /\ user_action' = Called("handle_event", key,
                                handle_event(input_area, key, dir).action)
        /\ InputFrame

\* check_pending_enter, while the history has room for what it submits
CheckUpTo(bound) ==
    /\ Len(check_pending_enter(input_area).area.history) <= bound
    /\ input_area' = check_pending_enter(input_area).area
    /\ user_action' = Called("check_pending_enter", NoKey,
                            check_pending_enter(input_area).action)
    /\ InputFrame

\* an elapsed time after d more units, followed up to the delay it is
\* compared with
Aged(instant, d, most) ==
    IF instant = <<>> THEN <<>>
    ELSE IF instant[1] + d < most THEN <<instant[1] + d>> ELSE <<most>>

\* time passes: 100 ms while only an Enter is pending, one second otherwise
Tick ==
    \E d \in {IF input_area.escape_press_time = <<>>
              THEN EnterDelay ELSE EscapeWindow} :
        /\ input_area' =
             [input_area EXCEPT
                !.pending_enter = Aged(@, d, EnterDelay),
                !.escape_press_time = Aged(@, d, EscapeWindow)]
        /\ input_area' # input_area
        /\ user_action' = NotCalled
        /\ InputFrame

HandleKey == HandleKeyOf(Keys, Directories)

CheckPendingEnter == CheckUpTo(MaxSubmitted)

InputNext ==
    \/ SetAgentRunning
    \/ HandleKey
    \/ CheckPendingEnter
    \/ Tick

InputSpec == InputInit /\ [][InputNext]_vars

---------------------------------------------------------------------------
(* HistorySpec: the history of the input widget. The history is loaded by  *)
(* set_history or grows by submissions, and the keys pressed are those     *)
(* that write a text, submit it and walk the history.                      *)

HistoryKeys ==
    {Key("Char", "a", FALSE), Key("Enter", "", FALSE),
     Key("Enter", "", TRUE), Key("Up", "", FALSE), Key("Down", "", FALSE)}

\* the histories set_history is called with
Histories == {<<>>, <<<<"a">>, <<"a", "\n", "a">>>>}

SetHistory ==
    \E history \in Histories :
        /\ input_area' = set_history(input_area, history)
        /\ user_action' = Called("set_history", NoKey, NoAction)
        /\ InputFrame

HistoryKey == HandleKeyOf(HistoryKeys, {<<>>})

HistoryCheck == CheckUpTo(MaxHistory)

HistoryNext ==
    \/ SetHistory
    \/ HistoryKey
    \/ HistoryCheck
    \/ Tick

HistorySpec == InputInit /\ [][HistoryNext]_vars

---------------------------------------------------------------------------
(* Properties *)

\* the step is a loop iteration on an event of this type
Handled(type) ==
    /\ queue # <<>>
    /\ Head(queue).type = type
    /\ queue' = Tail(queue)

\* the step is process_next_step on a brain result, which last' records
BrainStep ==
    /\ state.kind = "Processing"
    /\ state.task_name = "next_step"
    /\ Handled("BrainResult")

IsSuffix(s, t) ==
    /\ Len(s) <= Len(t)
    /\ s = SubSeq(t, Len(t) - Len(s) + 1, Len(t))

EventsOf(events, type) ==
    LET keep(e) == e.type = type IN SelectSeq(events, keep)

\* the last index of the run of Tool messages that follows position j
RECURSIVE RunEnd(_, _)
RunEnd(msgs, j) ==
    IF j < Len(msgs) /\ msgs[j + 1].role = "Tool"
    THEN RunEnd(msgs, j + 1) ELSE j

\* a Tool message answers a call of the Assistant message its run follows,
\* and no other Tool message of the run answers the same call
ToolHasCall(msgs, i) ==
    \E j \in 1..(i - 1) :
        /\ msgs[j].role = "Assistant"
        /\ \A k \in (j + 1)..(i - 1) :
             msgs[k].role = "Tool" /\ msgs[k].id # msgs[i].id
        /\ \E n \in DOMAIN msgs[j].calls : msgs[j].calls[n] = msgs[i].id

\* every call of the Assistant message at j has its Tool message
CallsAnswered(msgs, j) ==
    \A n \in DOMAIN msgs[j].calls :
        \E i \in (j + 1)..RunEnd(msgs, j) : msgs[i].id = msgs[j].calls[n]

\* C1: in every reachable state each Tool message of the trace follows, in
\* its run of Tool messages, an Assistant message carrying a call with its
\* id; every call of an Assistant message has its one Tool message once the
\* conversation has moved on, and in particular whenever a brain call is in
\* flight. Compression included.
C1_ToolPairing ==
    /\ \A i \in DOMAIN trace :
         trace[i].role = "Tool" => ToolHasCall(trace, i)
    /\ \A j \in DOMAIN trace :
         (/\ trace[j].role = "Assistant"
          /\ \/ RunEnd(trace, j) < Len(trace)
             \/ state.task_name = "next_step"
             \/ state.kind = "Paused")
         => CallsAnswered(trace, j)

\* a result in the queue that the brain task of the current Processing state
\* did not send: its task was cancelled
Stale(ev) ==
    ev.type = "BrainResult" /\ ev.token # state.token

\* C2: the result of a brain task that was cancelled is never appended to
\* the trace or the full trace, whenever it arrives.
C2_CancelledResultDropped ==
    [][(Handled("BrainResult") /\ Stale(Head(queue)))
         => (trace' = trace /\ full_trace' = full_trace)]_vars

\* the work of the current Processing state: a task holding the token of
\* the state, or the result such a task has sent
TokenObserved ==
    \/ \E t \in tasks : t.token = state.token
    \/ \E i \in DOMAIN queue : queue[i].token = state.token

ErrorDecisions ==
    {d \in BrainDecisions : ~d.ok \/ d.message.role # "Assistant"}

AcceptedDecisions == BrainDecisions \ ErrorDecisions

C5_AssistantAppendedOnce ==
    [][(BrainStep /\ last'.result \in AcceptedDecisions) =>
         LET d == last'.result
         IN /\ full_trace' = Append(full_trace, d.message)
            /\ trace' # <<>>
            /\ trace'[Len(trace')] = d.message
            /\ IsSuffix(NonSystem(trace'),
                        Append(NonSystem(trace), d.message))
            /\ Len(EventsOf(emitted', "BrainResult")) = 1
            /\ EventsOf(emitted', "BrainResult")[1].ok
            /\ EventsOf(emitted', "BrainResult")[1].msg = d.message
            /\ EventsOf(emitted', "BrainResult")[1].at = Len(full_trace')]_vars

\* C5 witness: an Assistant message was accepted and ends the trace
C5_Witness ==
    /\ last.type = "BrainResult"
    /\ last.from.task_name = "next_step"
    /\ last.result \in AcceptedDecisions
    /\ trace[Len(trace)] = last.result.message
    /\ full_trace[Len(full_trace)] = last.result.message
    /\ EventsOf(emitted, "BrainResult") # <<>>

\* C6: when the accepted Assistant message carries tool calls, the calls go
\* to the tool executor and the state is Processing with task "tools",
\* whatever the flow of the decision; no brain result leaves the agent
\* Paused or Idle with calls of the last Assistant message unanswered.
C6_ToolCallsBeforeFlow ==
    [][/\ (/\ BrainStep
           /\ last'.result \in AcceptedDecisions
           /\ last'.result.message.calls # <<>>)
          => /\ state'.kind = "Processing"
             /\ state'.task_name = "tools"
             /\ \E t \in tasks' \ tasks :
                  /\ t.kind = "tools"
                  /\ t.calls = last'.result.message.calls
                  /\ t.token = state'.token
       /\ (/\ Handled("BrainResult")
           /\ state.kind = "Processing"
           /\ state'.kind \in {"Paused", "Idle"})
          => Unanswered(trace') = <<>>]_vars

\* C6 witness: a decision with tool calls and flow Pause was processed and
\* the state is Processing with task "tools"
C6_Witness ==
    /\ last.type = "BrainResult"
    /\ last.from.task_name = "next_step"
    /\ last.result \in AcceptedDecisions
    /\ last.result.message.calls # <<>>
    /\ last.result.flow = "AgentPause"
    /\ state.task_name = "tools"

\* C7: when the accepted Assistant message carries no tool call, flow
\* Continue spawns another brain step and the state is Processing with task
\* "next_step"; flow Pause leaves the state Paused and spawns nothing.
C7_FlowControl ==
    [][(/\ BrainStep
        /\ last'.result \in AcceptedDecisions
        /\ last'.result.message.calls = <<>>)
         => IF last'.result.flow = "AgentContinue"
            THEN /\ state'.kind = "Processing"
                 /\ state'.task_name = "next_step"
                 /\ \E t \in tasks' \ tasks :
                      /\ t.kind = "brain"
                      /\ ~t.cancelled
                      /\ t.token = state'.token
            ELSE /\ state' = Paused
                 /\ tasks' = tasks]_vars

\* C7 witness: a decision without tool calls and with flow Continue was
\* processed and a brain step is in flight
C7_Witness ==
    /\ last.type = "BrainResult"
    /\ last.from.task_name = "next_step"
    /\ last.result \in AcceptedDecisions
    /\ last.result.message.calls = <<>>
    /\ last.result.flow = "AgentContinue"
    /\ state.task_name = "next_step"
    /\ \E t \in tasks : t.token = state.token

\* the ContextCompressed events that report a compression of the trace
Compressions(events) ==
    LET keep(e) == e.type = "ContextCompressed" /\ e.info.some
    IN SelectSeq(events, keep)

\* C8: on every brain result, Err included, the conditional compression
\* runs first, on the trace without the result's message; the message then
\* appended and emitted is the one received.
C8_CompressionFirst ==
    [][(BrainStep /\ ~pending_compress) =>
         \A a \in AnswersFor(trace) : HandleWith(last'.result, a) =>
            LET d == last'.result
                runs == /\ compressor.present
                        /\ should_compress_conversation(compressor, trace)
                checked == IF runs
                           THEN compress_messages(compressor, trace,
                                                  full_trace, a).messages
                           ELSE trace
            IN /\ trace' = IF d \in AcceptedDecisions
                           THEN Append(checked, d.message) ELSE checked
               /\ Len(Compressions(emitted')) = (IF runs THEN 1 ELSE 0)
               /\ runs => Compressions(emitted')[1].info.original_message_count
                            = Len(trace)
               /\ d \in AcceptedDecisions =>
                    EventsOf(emitted', "BrainResult")[1].msg = d.message]_vars

\* C8 witness: a result was accepted in an iteration whose compression
\* shortened the trace
C8_Witness ==
    /\ last.type = "BrainResult"
    /\ last.from.task_name = "next_step"
    /\ last.result \in AcceptedDecisions
    /\ Compressions(emitted) # <<>>
    /\ Compressions(emitted)[1].info.compressed_message_count
         < Compressions(emitted)[1].info.original_message_count
    /\ trace[Len(trace)] = last.result.message

\* the step applies compress_messages to the compressor and trace before it
CompressMessagesStep == state'.task_name = "compress_messages"

\* compress_messages went through the compression: it returned a
\* CompressionInfo
Proceeded == Compressions(emitted') # <<>>

\* compress_messages returned its input and left the compressor alone
ReturnedInput ==
    /\ trace' = trace
    /\ emitted' = <<>>
    /\ compressor' = compressor

ManualStep ==
    /\ Handled("ManualCompressionRequested")
    /\ state.kind = "Paused"
    /\ compressor.present

\* C10: forced compression runs for any current_tokens, below the threshold
\* too, when the trace has more than two non-System messages: it keeps the
\* last six of them, returns a CompressionInfo, which manual compression
\* emits as ContextCompressed, and resets current_tokens. With at most two
\* non-System messages the trace and current_tokens stay as they are and
\* no ContextCompressed is emitted. The state is Paused afterwards.
C10_ForceCompression ==
    [][ManualStep =>
         /\ state' = Paused
         /\ IF Len(NonSystem(trace)) <= 2
            THEN /\ trace' = trace
                 /\ compressor' = compressor
                 /\ EventsOf(emitted', "ContextCompressed") = <<>>
            ELSE /\ Len(Compressions(emitted')) = 1
                 /\ Compressions(emitted')[1].info.tokens_before
                      = compressor.current_tokens
                 /\ Compressions(emitted')[1].info.current_tokens
                      = compressor'.current_tokens
                 /\ Compressions(emitted')[1].info.original_message_count
                      = Len(trace)
                 /\ IsSuffix(NonSystem(trace'), NonSystem(trace))
                 /\ Len(NonSystem(trace'))
                      = (IF Len(NonSystem(trace)) < RecentKept
                         THEN Len(NonSystem(trace)) ELSE RecentKept)]_vars

\* C10 witness: a manual compression in Paused compressed a trace while the
\* token count was below the threshold, and replaced its middle by a note
C10_Witness ==
    /\ last.type = "ManualCompressionRequested"
    /\ last.from.kind = "Paused"
    /\ state = Paused
    /\ Compressions(emitted) # <<>>
    /\ 10 * (Compressions(emitted)[1].info.tokens_before + 1)
         <= 9 * Compressions(emitted)[1].info.max_tokens
    /\ Compressions(emitted)[1].info.compressed_message_count
         < Compressions(emitted)[1].info.original_message_count

---------------------------------------------------------------------------
(* The compression algorithm, checked on the compressor alone *)

\* the step applies compress_messages or compress_messages_force
CompressStep ==
    state'.task_name \in {"compress_messages", "compress_messages_force"}

\* the step went through the compression algorithm
CompressionRan ==
    /\ CompressStep
    /\ \/ state'.task_name = "compress_messages_force"
       \/ should_compress(compressor)
    /\ Len(NonSystem(trace)) > 2

\* the summarizer was called in the step and gave this answer
MadeWith(a) == llm_call'.asked /\ llm_call'.response = a

\* the last n elements of a sequence, all of them if it has fewer
LastOf(seq, n) ==
    SubSeq(seq, IF Len(seq) > n THEN Len(seq) - n + 1 ELSE 1, Len(seq))

\* the System messages that are not summaries, in order
KeptSystem(msgs) ==
    LET keep(m) == m.role = "System" /\ m.name # "summary"
    IN SelectSeq(msgs, keep)

\* the partition has a middle: more than six non-System messages
HasMiddle(msgs) == Len(NonSystem(msgs)) > 6

\* a response the summarizer accepts: a text that is not blank, with a
\* completion_tokens value above zero
Accepted(a) ==
    /\ a.ok /\ a.usage /\ a.has_completion /\ a.completion_tokens > 0
    /\ a.choice = "text"
    /\ \E i \in DOMAIN a.summary : ~IsWhitespace(a.summary[i])

\* C11: when compression runs with a non-empty middle and the summarizer
\* succeeds, the new trace is the non-summary System messages of the input
\* in order, then one System message named "summary" whose content is
\* "Previous conversation summary: " followed by the summary, then the last
\* six non-System messages of the input in order; current_tokens becomes
\* the completion_tokens of the summarization call.
C11_SummaryLayout ==
    [][(CompressionRan /\ HasMiddle(trace) /\ compressor.has_llm) =>
         \A a \in LlmResponses : (Accepted(a) /\ MadeWith(a)) =>
            /\ trace' = KeptSystem(trace)
                 \o <<[role |-> "System", name |-> "summary",
                       content |-> [kind |-> "Text",
                                    text |-> <<"Previous conversation summary: ">>
                                               \o a.summary],
                       calls |-> <<>>, id |-> 0]>>
                 \o LastOf(NonSystem(trace), 6)
            /\ compressor'.current_tokens = a.completion_tokens]_vars

\* C11 witness: an automatic compression replaced the middle of a trace by
\* the summary " s", kept as the summarizer gave it, and the token count is
\* the 10 completion tokens of the call
C11_Witness ==
    /\ state.task_name = "compress_messages"
    /\ llm_call.asked
    /\ \E i \in DOMAIN trace :
         /\ trace[i].name = "summary"
         /\ trace[i].content.text
              = <<"Previous conversation summary: ", " ", "s">>
    /\ compressor.current_tokens = 10
    /\ Len(NonSystem(trace)) = 6

\* C12: when compression runs with a non-empty middle and the summarizer
\* fails (no client or model, the call errors, or the response is
\* rejected), compression still completes: the new trace is the
\* non-summary System messages in order, then one System message named
\* "system" saying the history was compressed without a summary, then the
\* last six non-System messages in order; current_tokens becomes 50 and
\* the CompressionInfo returned has no ai_summary.
C12_FallbackLayout ==
    [][(CompressionRan /\ HasMiddle(trace)) =>
         \A a \in LlmResponses :
            (~compressor.has_llm \/ (MadeWith(a) /\ ~Accepted(a))) =>
               /\ trace' = KeptSystem(trace)
                    \o <<[role |-> "System", name |-> "system",
                          content |-> [kind |-> "Text",
                                       text |-> <<"[Previous conversation history compressed - AI summary unavailable]">>],
                          calls |-> <<>>, id |-> 0]>>
                    \o LastOf(NonSystem(trace), 6)
               /\ compressor'.current_tokens = 50
               /\ Len(emitted') = 1
               /\ emitted'[1].info.some
               /\ ~emitted'[1].info.ai_summary]_vars

\* C12 witness: a compression whose summarizer was called and gave nothing
\* usable left the fallback note and 50 tokens
C12_Witness ==
    /\ state.task_name = "compress_messages"
    /\ llm_call.asked
    /\ \E i \in DOMAIN trace : trace[i].name = "system"
    /\ compressor.current_tokens = 50
    /\ Len(NonSystem(trace)) = 6
    /\ emitted # <<>> /\ ~emitted[1].info.ai_summary

HasNamed(msgs, name) ==
    \E i \in DOMAIN msgs : msgs[i].role = "System" /\ msgs[i].name = name

\* C13: a response of the summarizer counts as a success only if it has a
\* text that is not empty once trimmed and a completion_tokens value above
\* zero. A response with an empty or blank text, with zero or no
\* completion_tokens, with no usage, or with no Assistant text choice is a
\* failure: it leads to the fallback note and never to a "summary" message.
C13_AcceptedResponses ==
    [][(CompressionRan /\ HasMiddle(trace) /\ compressor.has_llm) =>
         \A a \in LlmResponses : MadeWith(a) =>
            IF Accepted(a)
            THEN /\ HasNamed(trace', "summary")
                 /\ emitted'[1].info.ai_summary
            ELSE /\ ~HasNamed(trace', "summary")
                 /\ HasNamed(trace', "system")
                 /\ ~emitted'[1].info.ai_summary]_vars

\* C13 witness: the summarizer answered with a blank text and 10 completion
\* tokens, and the trace got the fallback note
C13_Witness ==
    /\ llm_call.asked
    /\ llm_call.response.choice = "text"
    /\ llm_call.response.summary = <<" ", "\n">>
    /\ llm_call.response.completion_tokens = 10
    /\ HasNamed(trace, "system")
    /\ ~HasNamed(trace, "summary")

\* C14: when compression runs on a trace with at most six non-System
\* messages, so that the middle is empty, the result is the non-summary
\* System messages followed by the non-System messages, with no summary
\* and no fallback note, and no CompressionInfo is returned, so that no
\* ContextCompressed event is emitted.
C14_EmptyMiddleSilent ==
    [][(CompressionRan /\ ~HasMiddle(trace)) =>
         /\ trace' = KeptSystem(trace) \o NonSystem(trace)
         /\ emitted' = <<>>]_vars

\* the positions of the User messages with a text in the full trace
TextualUsers(full) ==
    {i \in DOMAIN full : full[i].role = "User" /\ full[i].content.kind = "Text"}

\* C15: the user request handed to the summarizer is the oldest User
\* message with a text in the full trace; a full trace without one gives a
\* request that no User message of the conversation wrote.
C15_OldestUserRequest ==
    [][llm_call'.asked =>
         IF TextualUsers(full_trace) = {}
         THEN \A i \in DOMAIN full_trace :
                 full_trace[i].content.text # llm_call'.first_user_message
         ELSE \E i \in TextualUsers(full_trace) :
                 /\ \A j \in TextualUsers(full_trace) : i <= j
                 /\ llm_call'.first_user_message
                      = full_trace[i].content.text]_vars

IsPrefix(s1, s2) ==
    Len(s1) <= Len(s2) /\ s1 = SubSeq(s2, 1, Len(s1))

\* C16: after every compression, automatic or forced, with or without a
\* summary, the non-System messages of the trace are the last min(6, n)
\* non-System messages of the input in their order, n being the number the
\* input had, and the non-summary System messages of the input are all
\* kept, in their order.
C16_RecentKept ==
    [][CompressionRan =>
         /\ NonSystem(trace') = LastOf(NonSystem(trace), 6)
         /\ IsPrefix(KeptSystem(trace), KeptSystem(trace'))
         /\ IsPrefix(KeptSystem(trace), trace')]_vars

\* C16 witness: a forced compression took a trace of eight messages, seven
\* of them non-System, and left the last six of the seven
C16_Witness ==
    /\ state.task_name = "compress_messages_force"
    /\ emitted # <<>>
    /\ emitted[1].info.original_message_count = 8
    /\ Len(NonSystem(trace)) = 6
    /\ NonSystem(trace) = LastOf(NonSystem(full_trace), 6)

---------------------------------------------------------------------------
(* The shape of the trace over whole runs of the agent *)

SummaryAt(msgs) ==
    {i \in DOMAIN msgs : msgs[i].role = "System" /\ msgs[i].name = "summary"}

\* C17: in every reachable state, after any number of automatic and manual
\* compressions, the trace has at most one System message named "summary",
\* so never two of them side by side, and a summary comes right after the
\* leading System messages that are no summaries.
C17_OneSummary ==
    /\ Cardinality(SummaryAt(trace)) <= 1
    /\ \A i \in SummaryAt(trace) :
         /\ i > 1
         /\ \A j \in 1..(i - 1) :
              trace[j].role = "System" /\ trace[j].name # "summary"
         /\ \A j \in (i + 1)..Len(trace) : trace[j].role # "System"

\* C17 witness: two compressions ran in one loop iteration, each with a
\* summary of its own, and the trace holds one summary
C17_Witness ==
    /\ Cardinality(SummaryAt(trace)) = 1
    /\ Len(Compressions(emitted)) = 2
    /\ Compressions(emitted)[1].info.ai_summary
    /\ Compressions(emitted)[2].info.ai_summary

\* C18: in every reachable state the trace is at most one non-summary
\* System message, then possibly one System message named "summary", then
\* only User, Assistant and Tool messages; compressions whose summarizer
\* failed included.
C18_TraceShape ==
    LET lead == IF trace # <<>> /\ trace[1].role = "System"
                                /\ trace[1].name # "summary"
                THEN 1 ELSE 0
        note == IF /\ Len(trace) > lead
                   /\ trace[lead + 1].role = "System"
                   /\ trace[lead + 1].name = "summary"
                THEN 1 ELSE 0
    IN \A i \in (lead + note + 1)..Len(trace) :
          trace[i].role \in {"User", "Assistant", "Tool"}

\* C19: compress_messages called twice in a row, with no update of the
\* token count in between, does nothing the second time: it returns the
\* trace the first call produced and no CompressionInfo.
C19_SecondCallIdle ==
    [][(/\ state.task_name = "compress_messages"
        /\ state'.task_name = "compress_messages")
         => (trace' = trace /\ emitted' = <<>>)]_vars

---------------------------------------------------------------------------
(* The token counter *)

\* the compressor with the exact sum as its count, where the sum fits
update_token_count_exact(comp, input_tokens, output_tokens) ==
    [comp EXCEPT !.current_tokens =
        Value(TokenSums(comp, input_tokens, output_tokens)[2])]

CounterStep(p) ==
    /\ state'.task_name = "update_token_count"
    /\ last' = Updated(p[1], p[2])

\* C20: update_token_count(prompt, completion) sets current_tokens to its
\* previous value plus prompt plus completion for all 32-bit inputs, with
\* no wrap-around or loss, so that the count never decreases under token
\* updates; apart from it only a compression that runs changes the count.
C20_ExactCount ==
    [][/\ \A p \in TokenUpdates :
            CounterStep(p) =>
               /\ ret' # "panic"
               /\ ~update_token_count_overflows(compressor, p[1], p[2])
               /\ compressor' = update_token_count_exact(compressor,
                                                         p[1], p[2])
               /\ compressor'.current_tokens >= compressor.current_tokens
       /\ (/\ state'.task_name = "compress_messages"
           /\ ~should_compress(compressor))
            => compressor'.current_tokens = compressor.current_tokens]_vars

---------------------------------------------------------------------------
(* The handling of a brain result, continued *)

\* the step handles an Ok result whose message is an Assistant message
AcceptedStep ==
    /\ BrainStep
    /\ last'.result.ok
    /\ last'.result.message.role = "Assistant"

\* C21: when an Ok BrainResult carrying a token usage is processed, a
\* TokenUsage event with the usage is emitted and, as part of the handling,
\* current_tokens of the compressor grows by prompt + completion.
C21_UsageCounted ==
    [][(AcceptedStep /\ last'.result.usage # <<>>) =>
         /\ \E i \in DOMAIN emitted' :
               /\ emitted'[i].type = "TokenUsage"
               /\ emitted'[i].usage = last'.result.usage
         /\ (/\ compressor.present
             /\ ~should_compress_conversation(compressor, trace)) =>
               compressor' = update_token_count(compressor,
                                                last'.result.usage[1],
                                                last'.result.usage[2])]_vars

\* the public events come in the order of the types in `order`
InOrder(events, order) ==
    \A i, j \in DOMAIN events :
        i < j =>
           \A m, n \in DOMAIN order :
               (events[i].type = order[m] /\ events[j].type = order[n])
                  => m <= n

\* C22: the public events of the handling of one brain result come in the
\* order BrainResult, tool-call events, TokenUsage, ContextCompressed: no
\* TokenUsage or ContextCompressed event precedes the BrainResult event.
C22_EventOrder ==
    [][AcceptedStep =>
         InOrder(emitted', <<"BrainResult", "ToolCallStart", "ToolCallEnd",
                             "TokenUsage", "ContextCompressed">>)]_vars

---------------------------------------------------------------------------
(* Manual compression and the Paused state *)

\* the step handles a ManualCompressionRequested event in Paused
ManualInPaused ==
    /\ Handled("ManualCompressionRequested")
    /\ state.kind = "Paused"

\* what the step did is what check_and_compress_context_manual does with
\* the result r of compress_messages_force
ManualOutcome(r) ==
    /\ trace' = r.messages
    /\ compressor' = r.comp
    /\ emitted' = IF r.info.some
                  THEN <<PubEvent(core, "ContextCompressed", TRUE, NoMsg,
                                  <<>>, r.info)>>
                  ELSE <<>>

\* C23: a ManualCompressionRequested handled in Paused runs the forced
\* compression on the trace and the full trace, replaces the trace by the
\* result, writes the compressor back, emits ContextCompressed exactly
\* when an info was returned and ends in Paused, with the trace unchanged
\* when the brain has no compressor. A request handled in another state is
\* kept, and the forced compression runs in the iteration that next
\* reaches Paused.
C23_ManualCompression ==
    [][/\ ManualInPaused =>
            /\ state' = Paused
            /\ ret' = "Ok"
            /\ full_trace' = full_trace
            /\ IF compressor.present
               THEN \E a \in LlmAnswers :
                       ManualOutcome(compress_messages_force(
                                         compressor, trace, full_trace, a))
               ELSE /\ trace' = trace
                    /\ compressor' = compressor
                    /\ emitted' = <<>>
       /\ (Handled("ManualCompressionRequested") /\ state.kind # "Paused")
            => pending_compress'
       /\ (pending_compress /\ queue' # queue)
            => IF state'.kind # "Paused" THEN pending_compress'
               ELSE /\ ~pending_compress'
                    /\ compressor.present =>
                         /\ Len(NonSystem(trace')) <= RecentKept
                         /\ Len(NonSystem(trace')) > 2 =>
                              /\ emitted' # <<>>
                              /\ emitted'[Len(emitted')].type
                                   = "ContextCompressed"
                              /\ emitted'[Len(emitted')].info.some]_vars

\* C23 witness: a request made while a task was in flight has run its
\* forced compression in the iteration that handled the cancellation and
\* reached Paused
C23_Witness ==
    /\ state = Paused
    /\ last.type = "CancelTask"
    /\ last.from.kind = "Processing"
    /\ ~pending_compress
    /\ Compressions(emitted) # <<>>

\* the step handles an event of this type while the state is Paused
InPaused(type) ==
    /\ Handled(type)
    /\ state.kind = "Paused"

\* C24: a UserInput handled in Paused appends a User message to the trace
\* and to the full trace and starts a brain step: the state goes through
\* Running to Processing with task "next_step". The Paused handler never
\* drops it.
C24_UserInputInPaused ==
    [][InPaused("UserInput") =>
         /\ Len(trace') = Len(trace) + 1
         /\ trace'[Len(trace')].role = "User"
         /\ Len(full_trace') = Len(full_trace) + 1
         /\ full_trace'[Len(full_trace')].role = "User"
         /\ state'.kind = "Processing"
         /\ state'.task_name = "next_step"
         /\ \E t \in tasks' : t.kind = "brain" /\ t.token = state'.token]_vars

\* C25: in Paused, handling a BrainResult, a ToolsResult or a CancelTask,
\* any number of times and in any order, returns Ok, leaves the state, the
\* trace, the full trace and the compressor as they are and emits no public
\* event.
C25_PausedIgnores ==
    [][\A type \in {"BrainResult", "ToolsResult", "CancelTask"} :
          InPaused(type) =>
             /\ ret' = "Ok"
             /\ emitted' = <<>>
             /\ UNCHANGED <<state, trace, full_trace, compressor>>]_vars

\* C25 witness: a CancelTask has been handled in Paused after a
\* conversation of three messages or more, and the agent is as it was
C25_Witness ==
    /\ state = Paused
    /\ last.type = "CancelTask"
    /\ last.from = Paused
    /\ ret = "Ok"
    /\ emitted = <<>>
    /\ compressor.present
    /\ Len(trace) > 3

---------------------------------------------------------------------------
(* The full trace *)

\* C26: the full trace is append-only and never compressed: every step, the
\* handling of a brain result, automatic and manual compression and error
\* handling included, leaves the previous full trace as a prefix of the new
\* one, and the message process_next_step appends to the trace is appended
\* to the full trace as well.
C26_FullTraceAppendOnly ==
    [][/\ IsPrefix(full_trace, full_trace')
       /\ AcceptedStep =>
            /\ trace'[Len(trace')] = last'.result.message
            /\ full_trace' = Append(full_trace, last'.result.message)]_vars

\* C26 witness: the handling of a brain result has compressed the trace,
\* dropping messages of it, and appended the Assistant message; the full
\* trace still holds a message that the trace has lost
C26_Witness ==
    /\ last.type = "BrainResult"
    /\ last.result.ok
    /\ Compressions(emitted) # <<>>
    /\ \E i \in DOMAIN full_trace :
          \A j \in DOMAIN trace : trace[j] # full_trace[i]
    /\ full_trace[Len(full_trace)] = last.result.message
    /\ trace[Len(trace)] = last.result.message

---------------------------------------------------------------------------
(* The event queue *)

\* the step is the send of a brain task: a BrainResult joins the queue
BrainSendStep ==
    /\ Len(queue') = Len(queue) + 1
    /\ queue'[Len(queue')].type = "BrainResult"

\* C27: the internal event queue is bounded: the number of pending events
\* never exceeds its capacity, and a brain task sends its BrainResult only
\* when there is room, waiting while the queue is full.
C27_QueueBounded ==
    [][/\ Len(queue') <= QueueCapacity
       /\ BrainSendStep => Len(queue) < QueueCapacity]_vars

\* the entries whose score with the name reaches 0.6
PassingEntries(name) ==
    {i \in DOMAIN models :
        AtLeast(similarity_score(name, models[i][1]),
                MIN_SIMILARITY_THRESHOLD)}

\* the first of the passing entries no other passing entry outscores
BestEntry(name) ==
    CHOOSE i \in PassingEntries(name) :
        \A j \in PassingEntries(name) :
            /\ ~Greater(similarity_score(name, models[j][1]),
                        similarity_score(name, models[i][1]))
            /\ (j < i =>
                  Greater(similarity_score(name, models[i][1]),
                          similarity_score(name, models[j][1])))

\* C28: get_max_context returns a positive integer for every name, the
\* empty one included; a name equal to a table entry gets that entry's
\* context size; any other name gets the context size of the best entry
\* scoring at least 0.6, and 30_096 when no entry scores that much.
C28_LookupTotal ==
    [][/\ max_context' \in Nat \ {0}
       /\ max_context' = get_max_context(model_name)
       /\ \A i \in DOMAIN models :
             models[i][1] = model_name => max_context' = models[i][2]
       /\ (/\ \A i \in DOMAIN models : models[i][1] # model_name
           /\ PassingEntries(model_name) # {}) =>
             max_context' = models[BestEntry(model_name)][2]
       /\ (/\ \A i \in DOMAIN models : models[i][1] # model_name
           /\ PassingEntries(model_name) = {}) =>
             max_context' = DefaultContext]_vars

\* a name that is no entry of the table was resolved through an entry
\* scoring at least 0.6
C28_Witness ==
    /\ max_context # 0
    /\ \A i \in DOMAIN models : models[i][1] # model_name
    /\ PassingEntries(model_name) # {}
    /\ max_context = models[BestEntry(model_name)][2]
    /\ max_context # DefaultContext

Qwen3Coder == <<"Q", "w", "e", "n", "3", "-", "C", "o", "d", "e", "r", "-", "3", "2", "B">>

\* C29: "Qwen3-Coder-32B" resolves to the 32_000 of the "qwen3" entry,
\* "unknown-model-xyz" to the fallback 30_096, and a name that starts,
\* whatever the case, with a table entry and goes on with a suffix resolves
\* to that entry.
C29_FuzzyLookup ==
    [][/\ model_name = Qwen3Coder =>
             max_context' = models[CHOOSE i \in DOMAIN models :
                                     models[i][1] = <<"q", "w", "e", "n", "3">>][2]
       /\ model_name = UnknownModel => max_context' = DefaultContext
       /\ \A i \in DOMAIN models :
             (/\ IsPrefix(models[i][1], to_lowercase(model_name))
              /\ Len(model_name) > Len(models[i][1])) =>
                max_context' = models[i][2]]_vars

\* the part of C29 the code keeps: the name resembling no entry gets the
\* fallback
C29_UnknownFallsBack ==
    [][model_name = UnknownModel => max_context' = DefaultContext]_vars

\* the lookup of "Qwen3-Coder-32B" ended on the fallback
C29_QwenFallsBack ==
    /\ model_name = Qwen3Coder
    /\ max_context = DefaultContext

\* C30: a compressor that has counted no token, whatever positive
\* max_tokens it was built with, does not ask for compression, and one whose
\* count has reached 80 percent of max_tokens (800 of 1000 after
\* update_token_count(800, 0)) does.
C30_Threshold ==
    /\ (compressor.current_tokens = 0 /\ compressor.max_tokens > 0) =>
          ~should_compress(compressor)
    /\ (compressor.current_tokens * 10 >= compressor.max_tokens * 8) =>
          should_compress(compressor)

\* the compressor built with 1000 has counted (800, 0) and nothing else,
\* and does not ask for compression
C30_EightyIdle ==
    /\ compressor = [NewCompressor(1000, FALSE, TRUE)
                        EXCEPT !.current_tokens = 800]
    /\ last = Updated(800, 0)
    /\ ~should_compress(compressor)

\* a compressor that has counted nothing asks for compression
C30_FreshCompresses ==
    /\ state = Applied("new")
    /\ compressor.current_tokens = 0
    /\ compressor.max_tokens > 0
    /\ should_compress(compressor)

\* the part of C30 the code keeps for the size of the unit test: built with
\* 1000, the compressor asks for compression from 900 tokens on and not
\* before
C30_NinetyPercent ==
    compressor.max_tokens = 1000 =>
        (should_compress(compressor) <=> compressor.current_tokens >= 900)

\* the texts of the model that contain the word "compressed": the fallback
\* note is the only one
CompressedPhrases ==
    {"[Previous conversation history compressed - AI summary unavailable]"}

\* a System message whose text contains "compressed"
IsCompressionNotice(m) ==
    /\ m.role = "System"
    /\ m.content.kind = "Text"
    /\ \E i \in DOMAIN m.content.text : m.content.text[i] \in CompressedPhrases

\* compress_messages is called, without a client and with the counter at 85
\* percent of max_tokens, on one System message followed by four others
TestCall ==
    /\ CompressMessagesStep
    /\ ~compressor.has_llm
    /\ compressor.current_tokens * 100 = compressor.max_tokens * 85
    /\ Len(trace) = 5
    /\ IsSystem(trace[1])
    /\ Len(NonSystem(trace)) = 4

\* C31: compress_messages, without a client and with the counter at 85
\* percent of max_tokens, turns a System message followed by four other
\* messages into at least 4 messages that start with a System message and
\* hold a System message whose text contains "compressed".
C31_CompressionNotice ==
    [][TestCall =>
         /\ Len(trace') >= 4
         /\ IsSystem(trace'[1])
         /\ \E i \in DOMAIN trace' : IsCompressionNotice(trace'[i])]_vars

\* what the code does on that call: it returns the five messages as they
\* are, with no information
C31_ReturnsInput ==
    [][TestCall => (trace' = trace /\ emitted' = <<>>)]_vars

\* the five messages came back from the call and none is a notice
C31_NoNotice ==
    /\ state = Applied("compress_messages")
    /\ ~compressor.has_llm
    /\ compressor = [NewCompressor(1000, FALSE, TRUE)
                        EXCEPT !.current_tokens = 850]
    /\ Len(trace) = 5
    /\ Len(NonSystem(trace)) = 4
    /\ \A i \in DOMAIN trace : ~IsCompressionNotice(trace[i])

\* C32: every BrainResult that process_next_step is given in Processing
\* "next_step" was sent by the brain task spawned last, the one whose
\* cancellation token the state holds; the result of an earlier, cancelled
\* task is never appended to the trace.
C32_ResultOfLastTask ==
    [][BrainStep =>
         /\ Head(queue).token = state.token
         /\ (Head(queue).token # state.token =>
               (trace' = trace /\ full_trace' = full_trace))]_vars

\* the Assistant message of a cancelled task's result has just been
\* appended while a later brain task was in flight
C32_StaleAppended ==
    /\ last.type = "BrainResult"
    /\ last.from.kind = "Processing"
    /\ last.from.task_name = "next_step"
    /\ last.result.ok
    /\ \E t \in tasks : t.kind = "brain" /\ t.token = last.from.token
    /\ Len(full_trace) > 1
    /\ full_trace[Len(full_trace)] = last.result.message

\* C33: Processing "context_compression" is transient. Once the handling of
\* an event is over (a BrainResult that set off the automatic compression,
\* whatever the result was, or a ManualCompressionRequested), the state is
\* not Processing "context_compression".
C33_CompressionTransient ==
    ~(state.kind = "Processing" /\ state.task_name = "context_compression")

\* a brain result whose handling compressed the trace has been handled, and
\* its decision, which asked to pause, left the agent Paused
C33_Witness ==
    /\ last.type = "BrainResult"
    /\ last.from.task_name = "next_step"
    /\ Compressions(emitted) # <<>>
    /\ last.result \in AcceptedDecisions
    /\ last.result.message.calls = <<>>
    /\ last.result.flow = "AgentPause"
    /\ state = Paused

\* how many fallback notes the messages hold
Notes(msgs) == LET keep(m) == m = FallbackMsg IN Len(SelectSeq(msgs, keep))

\* the step took fewer non-System messages over into the new trace
DropsMessages == Len(NonSystem(trace')) < Len(NonSystem(trace))

\* the new trace holds a summary message, or one more fallback note
Replaced ==
    \/ \E j \in DOMAIN trace' : IsSummary(trace'[j])
    \/ Notes(trace') > Notes(trace)

\* C34: a compression, automatic or forced, that removes the earlier summary
\* message or any non-System message from the trace leaves a trace with a
\* new summary message or a new fallback note.
C34_NothingLostUnreplaced ==
    [][(/\ CompressStep
        /\ \/ DropsMessages
           \/ \E i \in DOMAIN trace : IsSummary(trace[i])) => Replaced]_vars

\* the part of C34 the code keeps: when non-System messages are removed, a
\* summary or a fallback note takes their place
C34_MiddleReplaced ==
    [][(CompressStep /\ DropsMessages) => Replaced]_vars

\* a compression has just removed the summary of an earlier one and put
\* nothing in its place
C34_SummaryLost ==
    /\ state.task_name \in {"compress_messages", "compress_messages_force"}
    /\ Compressions(emitted) # <<>>
    /\ Compressions(emitted)[1].info.compressed_message_count
         = Compressions(emitted)[1].info.original_message_count - 1
    /\ \A j \in DOMAIN trace : ~IsSummary(trace[j]) /\ trace[j] # FallbackMsg

\* the CompressionInfo of the step agrees with the compressor: tokens_before
\* is the counter before the call and current_tokens, when present (above
\* zero), the counter after it
InfoAgrees ==
    \A i \in DOMAIN Compressions(emitted') :
        /\ Compressions(emitted')[i].info.tokens_before
             = compressor.current_tokens
        /\ Compressions(emitted')[i].info.current_tokens > 0 =>
             Compressions(emitted')[i].info.current_tokens
               = compressor'.current_tokens

\* C35: no compression, automatic or forced, increases the token counter:
\* current_tokens after the call is at most current_tokens before it, which
\* is the tokens_before of the CompressionInfo, and the current_tokens of
\* the CompressionInfo, when present, is the new counter.
C35_CounterNeverGrows ==
    [][CompressStep =>
         /\ compressor'.current_tokens <= compressor.current_tokens
         /\ InfoAgrees]_vars

\* the part of C35 the code keeps: the CompressionInfo agrees with the
\* counter before and after the call
C35_InfoAgrees ==
    [][CompressStep => InfoAgrees]_vars

\* a compression has just left the counter above the tokens_before it
\* reports
C35_CounterGrew ==
    /\ state.task_name \in {"compress_messages", "compress_messages_force"}
    /\ Compressions(emitted) # <<>>
    /\ compressor.current_tokens
         > Compressions(emitted)[1].info.tokens_before

\* the step is a call of check_pending_enter that finds an Enter pending
\* for 100 ms or more
EnterExpires ==
    /\ user_action'.call = "check_pending_enter"
    /\ input_area.pending_enter = <<EnterDelay>>

\* the text of the input, its lines joined by line feeds
Typed(w) == join(w.input.lines)

\* C36: the widget returns no UserInput and no UserAppCommand while the
\* agent runs: a pending Enter that expires then gives Nope and leaves the
\* text and the history as they are. When the agent does not run and the
\* first line is not empty, the text is appended to the history,
\* history_index becomes the length of the history, the input is emptied,
\* and the action is UserAppCommand exactly when the text starts with '/'.
C36_NoSubmissionWhileRunning ==
    [][/\ user_action'.kind \in {"UserInput", "UserAppCommand"} =>
            ~input_area.agent_running
       /\ (EnterExpires /\ input_area.agent_running) =>
            /\ user_action'.kind = "Nope"
            /\ input_area'.input = input_area.input
            /\ input_area'.history = input_area.history
       /\ (/\ EnterExpires
           /\ ~input_area.agent_running
           /\ input_area.input.lines[1] # <<>>) =>
            /\ input_area'.history
                 = Append(input_area.history, Typed(input_area))
            /\ input_area'.history_index = Len(input_area'.history)
            /\ input_area'.input = EmptyArea
            /\ user_action'.text = Typed(input_area)
            /\ user_action'.kind
                 = (IF Typed(input_area)[1] = "/"
                    THEN "UserAppCommand" ELSE "UserInput")]_vars

\* a pending Enter has expired while the agent was running: Nope came back
\* and the typed text is still there
C36_Witness ==
    /\ user_action = Called("check_pending_enter", NoKey, Nope)
    /\ input_area.agent_running
    /\ input_area.input.lines[1] # <<>>
    /\ input_area.pending_enter = <<>>
    /\ input_area.history = <<>>

\* the step is handle_event on Esc while the agent runs
EscWhileRunning ==
    /\ user_action'.call = "handle_event"
    /\ user_action'.key.code = "Esc"
    /\ input_area.agent_running

\* C37: while the agent runs, handle_event returns CancelTask on every Esc,
\* whatever the widget holds (a pending Enter, the help, file suggestions),
\* and leaves the typed text, the history and the suggestions as they are.
C37_EscCancels ==
    [][EscWhileRunning =>
         /\ user_action'.kind = "CancelTask"
         /\ input_area'.input.lines = input_area.input.lines
         /\ input_area'.history = input_area.history
         /\ input_area'.history_index = input_area.history_index
         /\ input_area'.file_suggestions = input_area.file_suggestions
         /\ input_area'.suggestion_index = input_area.suggestion_index
         /\ input_area'.suggestion_search = input_area.suggestion_search]_vars

\* the part of C37 the code keeps: CancelTask comes back on every such Esc,
\* and the history and the suggestions are left as they are
C37_CancelReturned ==
    [][EscWhileRunning =>
         /\ user_action'.kind = "CancelTask"
         /\ input_area'.history = input_area.history
         /\ input_area'.history_index = input_area.history_index
         /\ input_area'.file_suggestions = input_area.file_suggestions
         /\ input_area'.suggestion_index = input_area.suggestion_index
         /\ input_area'.suggestion_search = input_area.suggestion_search
         /\ input_area.pending_enter = <<>> =>
              input_area'.input = input_area.input]_vars

\* an Esc has cancelled the task and the text has a line more than typed:
\* the Enter that was pending
C37_LineAdded ==
    /\ user_action.call = "handle_event"
    /\ user_action.key.code = "Esc"
    /\ user_action.kind = "CancelTask"
    /\ input_area.input.lines = <<<<"/">>, <<>>>>

\* the step is handle_event on Enter without ALT
PlainEnter ==
    /\ user_action'.call = "handle_event"
    /\ user_action'.key.code = "Enter"
    /\ ~user_action'.key.alt

\* the step is handle_event while an Enter is pending: the pending Enter is
\* cancelled (the key may be an Enter that pends in turn), nothing is
\* submitted, and a typed character or a further Enter finds the input one
\* line longer
PendingConverted ==
    (user_action'.call = "handle_event" /\ input_area.pending_enter # <<>>) =>
        /\ ~PlainEnter => input_area'.pending_enter = <<>>
        /\ user_action'.kind \notin {"UserInput", "UserAppCommand"}
        /\ user_action'.key.code \in {"Char", "Enter"} =>
             Len(input_area'.input.lines)
               = Len(input_area.input.lines) + 1
                   + (IF user_action'.key.alt THEN 1 ELSE 0)

\* a submission comes from check_pending_enter alone, on an Enter pending
\* for 100 ms or more, which is cleared
SubmittedByCheck ==
    user_action'.kind \in {"UserInput", "UserAppCommand"} =>
        /\ user_action'.call = "check_pending_enter"
        /\ input_area.pending_enter = <<EnterDelay>>
        /\ input_area'.pending_enter = <<>>

IndexInRange(w) ==
    /\ 0 <= w.history_index
    /\ w.history_index <= Len(w.history)

\* C39: whatever set_history calls, keys and submissions came before,
\* 0 <= history_index <= history.len(); Up takes it down by one at most and
\* not below 0, Down takes it up by one at most and not above history.len(),
\* and after set_history or a submission it is history.len().
C39_IndexInRange ==
    [][/\ IndexInRange(input_area)
       /\ IndexInRange(input_area')
       /\ user_action'.key.code = "Up" =>
            input_area'.history_index
              \in {input_area.history_index, input_area.history_index - 1}
       /\ user_action'.key.code = "Down" =>
            input_area'.history_index
              \in {input_area.history_index, input_area.history_index + 1}
       /\ (\/ user_action'.call = "set_history"
           \/ user_action'.kind \in {"UserInput", "UserAppCommand"}) =>
            input_area'.history_index = Len(input_area'.history)]_vars

\* Up was pressed and the index is at the oldest of two entries, the second
\* of them submitted from this input
C39_Witness ==
    /\ user_action.call = "handle_event"
    /\ user_action.key.code = "Up"
    /\ input_area.history = <<<<"a">>, <<"a", "a">>>>
    /\ input_area.history_index = 0
    /\ input_area.input.lines = <<<<"a">>>>

\* the widget after handle_event on the same key n times, no files around
RECURSIVE PressTimes(_, _, _)
PressTimes(w, key, n) ==
    IF n = 0 THEN w
    ELSE PressTimes(handle_event(w, key, <<>>).area, key, n - 1)

\* Up k times, then Down k times
UpThenDown(w, k) ==
    PressTimes(PressTimes(w, Key("Up", "", FALSE), k),
               Key("Down", "", FALSE), k)

\* the newest position of the history, nothing pending and no suggestions
AtNewest(w) ==
    /\ w.history_index = Len(w.history)
    /\ w.pending_enter = <<>>
    /\ w.file_suggestions = <<>>

\* C40: from the newest position, whatever the text (empty or typed), Up k
\* times then Down k times, 1 <= k <= history.len(), gives back exactly the
\* text there was before the first Up, never a draft saved earlier.
C40_DraftRestored ==
    AtNewest(input_area) =>
        \A k \in 1 .. Len(input_area.history) :
            UpThenDown(input_area, k).input.lines = input_area.input.lines

\* the text is given back when its last line is not an empty line after
\* another and no earlier draft is left behind an empty text
C40_PlainDraftRestored ==
    (/\ AtNewest(input_area)
     /\ is_empty(input_area) => input_area.current_draft = <<>>
     /\ str_lines(join(input_area.input.lines)) = input_area.input.lines
        \/ is_empty(input_area)) =>
        \A k \in 1 .. Len(input_area.history) :
            UpThenDown(input_area, k).input.lines
              = (IF is_empty(input_area) THEN <<<<>>>>
                 ELSE input_area.input.lines)

\* a prompt was submitted from an older position after "a" was saved as the
\* draft: the text is empty, and Up then Down puts "a" into it
C40_StaleDraft ==
    /\ AtNewest(input_area)
    /\ input_area.input.lines = <<<<>>>>
    /\ input_area.current_draft = <<<<"a">>>>
    /\ Len(input_area.history) = 2
    /\ UpThenDown(input_area, 1).input.lines = <<<<"a">>>>

\* the text ends with an empty line, which Up then Down drops
C40_LineDropped ==
    /\ AtNewest(input_area)
    /\ input_area.input.lines = <<<<"a">>, <<>>>>
    /\ input_area.history # <<>>
    /\ UpThenDown(input_area, 2).input.lines = <<<<"a">>>>

====
